---- MODULE Spec2Model ----
(***************************************************************************)
(* Model of the build system core of bluecube/bs:                          *)
(*   - bs/cache.py      Cache (content addressed store, LRU eviction)      *)
(*   - bs/nodes.py      Application.update (look-before-build)             *)
(*   - bs/traversal.py  update (blocker counting parallel traversal)       *)
(*                                                                         *)
(* Hashes are modelled as injective values (a full hash is the tuple of    *)
(* the hashed elements), file paths handed to Cache.put exist and have     *)
(* distinct base names, and source files change content but are never      *)
(* deleted.                                                                *)
(***************************************************************************)
EXTENDS Integers, Sequences, FiniteSets, TLC

VARIABLES
    \* ---- bs/cache.py: Cache
    data,            \* Cache._data: OrderedDict in MRU order (head = LRU)
    partial_hashes,  \* Cache._partial_hashes: partial hash -> list of full hashes
    size_used,       \* Cache.size_used
    size_limit,      \* Cache.size_limit
    disk,            \* directories below Cache.directory: full hash -> file sizes
    dirs,            \* the directories HH below Cache.directory: made by a
                     \* put, removed only together with Cache.directory
    meta,            \* the file metadata.pickle in Cache.directory
    last,            \* the call that returned last, and how it returned
    inserted,        \* history: full hashes of the stored entries, oldest put first
    \* ---- bs/nodes.py: one Application, and the source files it reads
    files,           \* path -> hash of the content of the file at that path
    implicit_dependencies,  \* Application.implicit_dependencies ("None" or a list)
    dependencies,    \* Application.dependencies (Node.dependencies)
    \* ---- bs/traversal.py: update(context, targets, dirty, job_count)
    graph,           \* the arguments and the graph: reverse_dependencies and
                     \* targets of every node, targets, dirty, job_count
    new_dirty,       \* the free name new_dirty (bound to a set, or not bound)
    need_update,     \* need_update: node -> number of blockers
    to_check,        \* to_check (phase 1 queue)
    main,            \* the thread that called update: where it is
    waiting,         \* waiting: the futures submitted and not yet seen done
    pool,            \* the executor: queued, running and completed tasks
    hist,            \* history: which updates began and ended, in what order
    \* ---- bs/nodes.py Node and bs/backend.py: the graph of a build script
    node_fields,     \* node -> dependencies, named_dependencies,
                     \* reverse_dependencies, targets, implicit_dependencies
    backend_files,   \* Backend.files: path -> SourceFile
    graph_last,      \* the call on the graph that returned last, and history
    waiting_nodes,   \* _TargetData.waiting_nodes of the target of each node
    \* ---- worker threads that call one Cache (bs/traversal.py: wrapper)
    threads,         \* thread -> the call it makes, where it is, its locals
    before,          \* history: the cache when the threads were started
    \* ---- bs/backend.py: Backend.update and the progress messages of a Context
    channel,         \* the call of Backend.update, the messages logged and
                     \* the consumer of the iterator returned
    \* ---- bs/util.py: sha1_iterable
    hashed,          \* the iterables handed to sha1_iterable
    \* ---- bs/service.py: a service, its control file and its clients
    service,         \* the server process, the control file, the connections
    \* ---- bs/nodes.py and bs/context.py: Applications that share a cache
    apps,            \* Application -> implicit_dependencies, and where its
                     \* update is
    file_index       \* Context.files and the threads that call file_by_path

cacheVars == <<data, partial_hashes, size_used, size_limit, disk, dirs, meta,
               last, inserted>>

appVars == <<files, implicit_dependencies, dependencies>>

travVars == <<graph, new_dirty, need_update, to_check, main, waiting, pool,
              hist>>

graphVars == <<node_fields, backend_files, graph_last, waiting_nodes>>

threadVars == <<threads, before>>

channelVars == <<channel>>

hashVars == <<hashed>>

serviceVars == <<service>>

engineVars == <<apps, file_index>>

\* the variables of the parts added after the graph
moreVars == <<threadVars, channelVars, hashVars, serviceVars, engineVars>>

vars == <<data, partial_hashes, size_used, size_limit, disk, dirs, meta, last,
          inserted,
          files, implicit_dependencies, dependencies,
          graph, new_dirty, need_update, to_check, main, waiting, pool, hist,
          node_fields, backend_files, graph_last, waiting_nodes,
          threads, before, channel, hashed, service, apps, file_index>>

-----------------------------------------------------------------------------
(* Bounds *)

SizeLimit == 4          \* Cache.size_limit of the cache under test

FullHashes == {"f1", "f2", "f3"}
PartialHashes == {"p1", "p2"}
\* The implicit dependencies put with a full hash: the full hash is computed
\* from them (nodes.py:174-184), so each full hash comes with one list
DepsOf(final_hash) == <<final_hash>>

\* The lists of files handed to put, each file given by its size
PathLists == {<<>>, <<2>>, <<1, 2>>, <<3, 3>>}

-----------------------------------------------------------------------------
(* Helpers *)

RECURSIVE SumSeq(_)
SumSeq(s) == IF s = <<>> THEN 0 ELSE Head(s) + SumSeq(Tail(s))

RECURSIVE RemoveFirst(_, _)
\* list.remove(x): removes the first occurrence of x
RemoveFirst(s, x) ==
    IF s = <<>> THEN <<>>
    ELSE IF Head(s) = x THEN Tail(s)
    ELSE <<Head(s)>> \o RemoveFirst(Tail(s), x)

SeqToSet(s) == {s[i] : i \in 1..Len(s)}

Keys(d) == {d[i].hash : i \in 1..Len(d)}

IndexOf(d, h) == CHOOSE i \in 1..Len(d) : d[i].hash = h

Item(d, h) == d[IndexOf(d, h)]

\* A dict with key k removed / set
DictDel(f, k) == [x \in (DOMAIN f) \ {k} |-> f[x]]
DictSet(f, k, v) == [x \in (DOMAIN f) \cup {k} |-> IF x = k THEN v ELSE f[x]]

EmptyDict == [x \in {} |-> 0]

-----------------------------------------------------------------------------
(* bs/cache.py: Cache.  A cache value c is a record                         *)
(*   data, ph (= _partial_hashes), used (= size_used), disk,               *)
(*   err (the exception the running call raised, "none" if none),          *)
(*   evicted (number of entries the running call discarded).               *)

\* _Item = namedtuple("_Item", "size partial_hash implicit_dependencies"),
\* stored with its key
MkItem(final_hash, size, partial_hash, implicit_deps) ==
    [hash |-> final_hash, size |-> size, partial_hash |-> partial_hash,
     implicit_dependencies |-> implicit_deps]

\* no file metadata.pickle
NoMetadata == [kind |-> "missing", objects |-> <<>>]

\* shutil.rmtree(str(self.directory)): the directory exists when a put has
\* made a directory below it
RemoveTree(c) ==
    IF c.dirs = {} THEN [c EXCEPT !.err = "FileNotFoundError"]
    ELSE [c EXCEPT !.disk = EmptyDict, !.dirs = {}, !.meta = NoMetadata]

\* Mutant: the FileNotFoundError of rmtree is not caught
ClearWithoutExcept(c) ==
    RemoveTree([c EXCEPT !.used = 0, !.data = <<>>, !.ph = EmptyDict,
                         !.err = "none", !.evicted = 0])

\* Cache.clear(delete_directory = True)
Clear(c) ==
    LET removed == RemoveTree([c EXCEPT !.used = 0, !.data = <<>>,
                                        !.ph = EmptyDict,
                                        !.err = "none", !.evicted = 0])
    IN  IF removed.err = "FileNotFoundError"
        THEN [removed EXCEPT !.err = "none"]
        ELSE removed

\* self._partial_hashes[item.partial_hash].remove(final_hash), and the
\* deletion of a bucket that became empty
BucketRemove(ph, partial_hash, final_hash) ==
    LET b == RemoveFirst(ph[partial_hash], final_hash)
    IN  IF b = <<>> THEN DictDel(ph, partial_hash)
        ELSE DictSet(ph, partial_hash, b)

\* Mutant: the size of the discarded entry is not given back
DiscardOneKeepsSize(c) ==
    LET item == Head(c.data)
        popped == [c EXCEPT !.data = Tail(c.data),
                            !.ph = BucketRemove(c.ph, item.partial_hash, item.hash)]
    IN  IF item.hash \notin DOMAIN c.disk
        THEN [popped EXCEPT !.err = "FileNotFoundError"]
        ELSE [popped EXCEPT !.disk = DictDel(c.disk, item.hash),
                            !.evicted = c.evicted + 1]

\* Mutant: the entry stays listed in its partial hash bucket
DiscardOneKeepsBucket(c) ==
    LET item == Head(c.data)
        popped == [c EXCEPT !.data = Tail(c.data)]
    IN  IF item.hash \notin DOMAIN c.disk
        THEN [popped EXCEPT !.err = "FileNotFoundError"]
        ELSE [popped EXCEPT !.disk = DictDel(c.disk, item.hash),
                            !.used = c.used - item.size,
                            !.evicted = c.evicted + 1]

\* Cache._discard_one: pop the LRU entry, unlist it, remove its directory
\* (shutil.rmtree raises FileNotFoundError when there is none), give its
\* size back.  Requires a non-empty c.data.
DiscardOne(c) ==
    LET item == Head(c.data)
        popped == [c EXCEPT !.data = Tail(c.data),
                            !.ph = BucketRemove(c.ph, item.partial_hash, item.hash)]
    IN  IF item.hash \notin DOMAIN c.disk
        THEN [popped EXCEPT !.err = "FileNotFoundError"]
        ELSE [popped EXCEPT !.disk = DictDel(c.disk, item.hash),
                            !.used = c.used - item.size,
                            !.evicted = c.evicted + 1]

\* Mutant: the size of the new item is not counted
NeedsSpaceIgnoresNew(c, size) == c.used > c.limit

\* Mutant: an item that would fill the cache exactly does not fit
NeedsSpaceOffByOne(c, size) == c.used + size >= c.limit

\* the loop condition of Cache._reserve_space
NeedsSpace(c, size) == c.used + size > c.limit

RECURSIVE ReserveSpace(_, _)
\* Cache._reserve_space
ReserveSpace(c, size) ==
    IF ~NeedsSpace(c, size) THEN c
    ELSE IF Len(c.data) = 0 THEN [c EXCEPT !.err = "RuntimeError"]
    ELSE LET d == DiscardOne(c)
         IN  IF d.err # "none" THEN d ELSE ReserveSpace(d, size)

\* Mutant: the new entry is put in front of its bucket
BucketAppendFront(ph, partial_hash, final_hash) ==
    IF partial_hash \in DOMAIN ph
    THEN DictSet(ph, partial_hash, <<final_hash>> \o ph[partial_hash])
    ELSE DictSet(ph, partial_hash, <<final_hash>>)

\* self._partial_hashes.setdefault(partial_hash, []).append(final_hash)
BucketAppend(ph, partial_hash, final_hash) ==
    IF partial_hash \in DOMAIN ph
    THEN DictSet(ph, partial_hash, Append(ph[partial_hash], final_hash))
    ELSE DictSet(ph, partial_hash, <<final_hash>>)

\* the first byte, in hex, of the full hashes that are handed to put by name
HexDigits == [f1 |-> "66", f2 |-> "66", f3 |-> "67"]

\* Cache.get_directory: h[:2], the name of the directory HH the directory of
\* an entry lies in.  The hash an Application computes is a sequence
\* (sha1_iterable) whose first element stands for its first byte; the other
\* full hashes are names, with their first byte in HexDigits
HexPrefix(final_hash) ==
    IF dependencies # {} THEN final_hash[1] ELSE HexDigits[final_hash]

\* Cache.put; paths is the list of the sizes of the files to move
Put(c, final_hash, partial_hash, paths, implicit_deps) ==
    LET c0 == [c EXCEPT !.err = "none", !.evicted = 0]
        size == SumSeq(paths)
    IN  IF final_hash \in Keys(c.data)
           \/ (partial_hash \in DOMAIN c.ph
               /\ final_hash \in SeqToSet(c.ph[partial_hash]))
        THEN [c0 EXCEPT !.err = "AssertionError"]
        ELSE LET ins == [c0 EXCEPT
                           !.data = Append(c.data, MkItem(final_hash, size,
                                             partial_hash, implicit_deps)),
                           !.ph = BucketAppend(c.ph, partial_hash, final_hash)]
                 res == ReserveSpace(ins, size)
             IN  IF res.err # "none" THEN res
                 ELSE IF final_hash \in DOMAIN res.disk
                 THEN [res EXCEPT !.err = "AssertionError"]
                 ELSE [res EXCEPT !.disk = DictSet(res.disk, final_hash, paths),
                                  !.dirs = @ \cup {HexPrefix(final_hash)},
                                  !.used = res.used + size]

\* Cache.get_candidate_implicit_dependencies
GetCandidateImplicitDependencies(c, partial_hash) ==
    IF partial_hash \notin DOMAIN c.ph THEN <<>>
    ELSE LET candidate_hashes == c.ph[partial_hash]
         IN  [i \in 1..Len(candidate_hashes) |->
                 Item(c.data, candidate_hashes[i]).implicit_dependencies]

\* Mutant: move_to_end(final_hash, last=False)
AccessedToFront(c, final_hash) ==
    LET c0 == [c EXCEPT !.err = "none", !.evicted = 0]
    IN  IF final_hash \notin Keys(c.data)
        THEN [c0 EXCEPT !.err = "AssertionError"]
        ELSE LET i == IndexOf(c.data, final_hash)
             IN  [c0 EXCEPT !.data = <<c.data[i]>> \o SubSeq(c.data, 1, i - 1)
                                     \o SubSeq(c.data, i + 1, Len(c.data))]

\* Cache.accessed
Accessed(c, final_hash) ==
    LET c0 == [c EXCEPT !.err = "none", !.evicted = 0]
    IN  IF final_hash \notin Keys(c.data)
        THEN [c0 EXCEPT !.err = "AssertionError"]
        ELSE LET i == IndexOf(c.data, final_hash)
             IN  [c0 EXCEPT !.data = SubSeq(c.data, 1, i - 1)
                                     \o SubSeq(c.data, i + 1, Len(c.data))
                                     \o <<c.data[i]>>]

\* The cache held by the variables
TheCache ==
    [data |-> data, ph |-> partial_hashes, used |-> size_used,
     limit |-> size_limit, disk |-> disk,
     dirs |-> dirs, meta |-> meta, err |-> "none", evicted |-> 0]

\* Cache.__init__: clear(False) over an empty directory
EmptyCache ==
    [data |-> <<>>, ph |-> EmptyDict, used |-> 0, limit |-> SizeLimit,
     disk |-> EmptyDict,
     dirs |-> {}, meta |-> NoMetadata, err |-> "none", evicted |-> 0]

\* history: the stored full hashes, oldest put first, after a call that
\* left the cache c (put = TRUE: the call was a put of final_hash)
InsertedAfter(c, final_hash, put) ==
    IF put /\ c.err = "none"
    THEN Append(SelectSeq(inserted, LAMBDA h : h \in Keys(c.data) /\ h # final_hash),
                final_hash)
    ELSE SelectSeq(inserted, LAMBDA h : h \in Keys(c.data))

StoreCache(c) ==
    /\ data' = c.data
    /\ partial_hashes' = c.ph
    /\ size_used' = c.used
    /\ size_limit' = c.limit
    /\ disk' = c.disk
    /\ dirs' = c.dirs
    /\ meta' = c.meta

-----------------------------------------------------------------------------
(* bs/nodes.py: Application.  One Application with builder "builder" and    *)
(* the single input SourceFile "a"; the builder may also read "b".  A       *)
(* SourceFile node is named by its path (Context.file_by_path keeps one     *)
(* node per path).                                                          *)

Paths == {"a", "b"}
Contents == {"v1", "v2"}
Inputs == <<"a">>

\* The lists of paths Builder.build may return
BuilderResults == {<<>>, <<"b">>, <<"a", "b">>, <<"b", "b">>}

\* The sizes of the output files build may write (one output file)
OutputLists == {<<2>>, <<3>>}

\* SourceFile.get_hash: sha1 of the content
FileHash(path) == files[path]

\* util.sha1_iterable(*iterables): the hash of the concatenation of the
\* iterables (each element followed by a null byte), taken as injective
Sha1Iterable(iterables) ==
    LET RECURSIVE Cat(_)
        Cat(its) == IF its = <<>> THEN <<>> ELSE Head(its) \o Cat(Tail(its))
    IN  Cat(iterables)

\* Node.hash_helper
HashHelper(cls, args) == Sha1Iterable(<<<<cls>>>> \o args)

\* implicit_dependencies is None / is the list nodes
NoneDeps == [none |-> TRUE, nodes |-> <<>>]
ListDeps(nodes) == [none |-> FALSE, nodes |-> nodes]

\* Application._get_hash
GetHashOf(implicit) ==
    HashHelper("Application",
               << <<"builderhash">>,
                  [i \in 1..Len(Inputs) |-> FileHash(Inputs[i])],
                  IF ~implicit.none
                  THEN [i \in 1..Len(implicit.nodes) |->
                           FileHash(implicit.nodes[i])]
                  ELSE <<"None">> >>)

\* Application.get_hash
GetHash == GetHashOf(implicit_dependencies)

\* An Application value: implicit (implicit_dependencies), deps
\* (dependencies), err (exception raised, "none" if none)
TheApplication ==
    [implicit |-> implicit_dependencies, deps |-> dependencies, err |-> "none"]

RECURSIVE RemoveAll(_, _)
\* for node in self.implicit_dependencies: self.remove_dependency(node)
\* (Node.remove_dependency raises when the edge is not there)
RemoveAll(a, nodes) ==
    IF nodes = <<>> THEN a
    ELSE IF Head(nodes) \notin a.deps THEN [a EXCEPT !.err = "RuntimeError"]
    ELSE RemoveAll([a EXCEPT !.deps = a.deps \ {Head(nodes)}], Tail(nodes))

\* Application._set_implicit_dependencies
SetImplicitDependencies(a, nodes) ==
    LET removed == IF ~a.implicit.none THEN RemoveAll(a, a.implicit.nodes)
                   ELSE a
    IN  IF removed.err # "none" THEN removed
        ELSE [removed EXCEPT
                !.implicit = nodes,
                !.deps = IF ~nodes.none
                         THEN removed.deps \cup SeqToSet(nodes.nodes)
                         ELSE removed.deps]

\* Application._try_implicit_dependencies: does every (path, hash) of the
\* candidate equal the current hash of the file at that path
TryImplicitDependencies(deps) ==
    \A i \in 1..Len(deps) : FileHash(deps[i].path) = deps[i].hash

\* util.make_absolute, called by SourceFile.__init__, of a path that is
\* absolute already (the paths of the model are)
MakeAbsolute(path) == path

\* Context.file_by_path: the one SourceFile node of the path
FileByPath(path) == MakeAbsolute(path)

\* the nodes of a candidate: context.file_by_path(path) of each pair
CandidateNodes(deps) == [i \in 1..Len(deps) |-> FileByPath(deps[i].path)]

\* the loop of Application._find_cached_implicit_dependencies: the index of
\* the first candidate that matches, 0 if none does
FirstMatch(candidates) ==
    LET m == {i \in 1..Len(candidates) : TryImplicitDependencies(candidates[i])}
    IN  IF m = {} THEN 0 ELSE CHOOSE i \in m : \A j \in m : i <= j

\* Mutant: the hash stored with a path is not the hash of the file's content
DepPairsStale(nodes) ==
    [i \in 1..Len(nodes) |-> [path |-> nodes[i], hash |-> "stale"]]

\* [(node.get_path(context), node.get_hash()) for node in implicit_dependencies]
DepPairs(nodes) ==
    [i \in 1..Len(nodes) |-> [path |-> nodes[i], hash |-> FileHash(nodes[i])]]

\* history: the call that returned last was an update that built and stored
\* its outputs (the miss path ran to its end)
MissCompleted == last.op = "update" /\ last.built = 1 /\ last.err = "none"

StoreApplication(a) ==
    /\ implicit_dependencies' = a.implicit
    /\ dependencies' = a.deps

\* Application.update(context); computed_deps and output_paths are what
\* builder.build returns and writes if it is invoked (the node.accessed
\* calls that end the miss path do nothing for source files)
ApplicationUpdate ==
    \E computed_deps \in BuilderResults, output_paths \in OutputLists :
        LET partial_hash == GetHashOf(NoneDeps)
            candidates == GetCandidateImplicitDependencies(TheCache, partial_hash)
            found == FirstMatch(candidates)
        IN  IF found # 0
            THEN \* _find_cached_implicit_dependencies returned True
                 LET a == SetImplicitDependencies(TheApplication,
                                ListDeps(CandidateNodes(candidates[found])))
                 IN  /\ StoreApplication(a)
                     /\ last' = [op |-> "update", built |-> 0, found |-> found,
                                 err |-> a.err, evicted |-> 0,
                                 after |-> MissCompleted]
                     /\ UNCHANGED <<data, partial_hashes, size_used, size_limit, disk,
                                    dirs, meta, inserted, files>>
            ELSE LET cleared == SetImplicitDependencies(TheApplication, NoneDeps)
                 IN  IF cleared.err # "none"
                     THEN /\ StoreApplication(cleared)
                          /\ last' = [op |-> "update", built |-> 0, found |-> 0,
                                      err |-> cleared.err, evicted |-> 0,
                                      after |-> MissCompleted]
                          /\ UNCHANGED <<data, partial_hashes, size_used, size_limit, disk,
                                         dirs, meta, inserted, files>>
                     ELSE LET nodes == [i \in 1..Len(computed_deps) |->
                                                FileByPath(computed_deps[i])]
                              a == SetImplicitDependencies(cleared,
                                                           ListDeps(nodes))
                              final_hash == GetHashOf(a.implicit)
                              c == Put(TheCache, final_hash, partial_hash,
                                       output_paths, DepPairs(a.implicit.nodes))
                          IN  /\ StoreApplication(a)
                              /\ StoreCache(c)
                              /\ inserted' = InsertedAfter(c, final_hash, TRUE)
                              /\ last' = [op |-> "update", built |-> 1,
                                          found |-> 0, err |-> c.err,
                                          evicted |-> c.evicted,
                                          after |-> MissCompleted]
                              /\ UNCHANGED files

\* The content of a source file changes
FileChanges ==
    \E path \in Paths, content \in Contents :
        /\ files[path] # content
        /\ files' = [files EXCEPT ![path] = content]
        /\ last' = [op |-> "change", built |-> 0, found |-> 0, err |-> "none",
                    evicted |-> 0, after |-> FALSE]
        /\ UNCHANGED <<data, partial_hashes, size_used, size_limit, disk, dirs, meta,
                       inserted, implicit_dependencies, dependencies>>

\* The hashes of another Application (another builder)
OtherHash == <<"Application", "otherbuilder">>
OtherPartialHash == <<"Application", "otherbuilder", "None">>

\* Another Application stores its outputs in the same cache
OtherPut ==
    \E paths \in OutputLists :
        /\ OtherHash \notin Keys(data)
        /\ LET c == Put(TheCache, OtherHash, OtherPartialHash, paths, <<>>)
           IN  /\ StoreCache(c)
               /\ inserted' = InsertedAfter(c, OtherHash, TRUE)
               /\ last' = [op |-> "otherput", built |-> 0, found |-> 0,
                           err |-> c.err, evicted |-> c.evicted,
                           after |-> FALSE]
        /\ UNCHANGED appVars

\* Application.__init__: the builder and the inputs are dependencies, no
\* implicit dependencies are known
InitApplication ==
    /\ files \in [Paths -> Contents]
    /\ implicit_dependencies = NoneDeps
    /\ dependencies = {"builder"} \cup SeqToSet(Inputs)

-----------------------------------------------------------------------------
(* bs/traversal.py: update(context, targets, dirty, job_count), over the    *)
(* graph that Context.set_targets registered.                               *)

MaxWorkers == 2         \* largest job_count (threads of the executor)

Nodes == {"s1", "s2", "a3", "a4"}

\* the nodes a build script may declare as targets
TargetNodes == {"a3", "a4"}

\* head = Head(): the virtual node whose reverse dependencies are dirty
HeadNode == "HEAD"

\* the forward edges <<node, dependency>> a build script may declare
EdgeCandidates ==
    {<<"a3", "s1">>, <<"a3", "s2">>, <<"a4", "s1">>, <<"a4", "a3">>}

\* the lists handed over as dirty
DirtyLists == {<<"s1">>, <<"s2">>, <<"s1", "s2">>, <<"s1", "a3">>}

\* the sets of nodes whose update(context) raises
RaisingSets == {{}, {"s1"}, {"s1", "s2"}}

RECURSIVE Reach(_, _)
\* Context._process_nodes: the nodes visited from the nodes S through the
\* forward edges E
Reach(E, S) ==
    LET next == S \cup {e[2] : e \in {x \in E : x[1] \in S}}
    IN  IF next = S THEN S ELSE Reach(E, next)

\* node.targets after set_targets(targets T): the targets that reach the node
TargetsOf(E, T, node) == {t \in T : node \in Reach(E, {t})}

\* node.reverse_dependencies after set_targets: the visited nodes that have
\* the node as a dependency
ReverseDependenciesOf(E, T, node) == {n \in Reach(E, T) : <<n, node>> \in E}

\* N depends on D directly or through a dependency path
RECURSIVE Dependents(_)
Dependents(S) ==
    LET next == S \cup UNION {graph.rev[d] : d \in S}
    IN  IF next = S THEN S ELSE Dependents(next)

DependsOn(N, D) == N # D /\ N \in Dependents({D})

\* the name new_dirty, which update never assigns: not bound in the module
NewDirtyUnbound == [bound |-> FALSE, nodes |-> {}]

\* the name new_dirty bound to an empty set before update runs
NewDirtyBound == [bound |-> TRUE, nodes |-> {}]

\* the updates that are running: the tasks of the pool and the update the
\* calling thread runs itself
Updating == pool.running \cup (IF main.sync = "none" THEN {} ELSE {main.sync})

\* node.update(context) begins, in the pool or in the calling thread
BeginUpdate(h, node) ==
    LET returned == {d \in h.started \ Updating : d # node}
    IN  [h EXCEPT
           !.started = @ \cup {node},
           !.before = {p \in h.before : p[1] # node /\ p[2] # node}
                      \cup {<<d, node>> : d \in
                             {x \in returned : node \notin h.started
                                               \/ <<x, node>> \in h.before}},
           !.calls = [@ EXCEPT ![node] = @ + 1],
           !.late = IF h.raised # <<>> THEN @ \cup {node} ELSE @]

\* node.update(context) ends: it returns, or it raises
EndUpdate(h, node) ==
    IF node \in graph.raises
    THEN [h EXCEPT !.raised = Append(@, node)]
    ELSE h

\* history before any update
NoUpdates ==
    [started |-> {}, before |-> {}, calls |-> [n \in Nodes |-> 0],
     raised |-> <<>>, late |-> {}]

\* Mutant: the reverse dependency is put on to_check at every edge
Phase1EdgeEnqueuesAlways(st, reverse_dependency) ==
    IF graph.targets[reverse_dependency] \cap graph.selected # {}
    THEN [need |-> DictSet(st.need, reverse_dependency,
                           IF reverse_dependency \in DOMAIN st.need
                           THEN st.need[reverse_dependency] + 1 ELSE 1),
          check |-> Append(st.check, reverse_dependency)]
    ELSE st

\* lines 22-25: one edge of phase 1
Phase1Edge(st, reverse_dependency) ==
    IF graph.targets[reverse_dependency] \cap graph.selected # {}
    THEN IF reverse_dependency \notin DOMAIN st.need
         THEN [need |-> DictSet(st.need, reverse_dependency, 1),
               check |-> Append(st.check, reverse_dependency)]
         ELSE [need |-> DictSet(st.need, reverse_dependency,
                                st.need[reverse_dependency] + 1),
               check |-> st.check]
    ELSE st

RECURSIVE Phase1Edges(_, _)
\* lines 21-27 with new_dirty bound: all the edges of one node
Phase1Edges(st, revs) ==
    IF revs = <<>> THEN st
    ELSE Phase1Edges(Phase1Edge(st, Head(revs)), Tail(revs))

\* the orders in which a set can be iterated
Orderings(S) ==
    {s \in [1..Cardinality(S) -> S] :
        \A i, j \in 1..Cardinality(S) : i # j => s[i] # s[j]}

\* node.reverse_dependencies as iterated: the list of head, a set otherwise
ReverseDependencyLists(node) ==
    IF node = HeadNode THEN {graph.dirty} ELSE Orderings(graph.rev[node])

\* lines 19-27: one node of to_check
Phase1Visit ==
    /\ main.pc = "phase1"
    /\ to_check # <<>>
    /\ \E revs \in ReverseDependencyLists(Head(to_check)) :
          LET st0 == [need |-> need_update, check |-> Tail(to_check)]
          IN  IF revs # <<>> /\ ~new_dirty.bound
              THEN LET st == Phase1Edge(st0, Head(revs))
                   IN  /\ need_update' = st.need
                       /\ to_check' = st.check
                       /\ main' = [main EXCEPT !.pc = "raised",
                                               !.err = "NameError"]
                       /\ UNCHANGED new_dirty
              ELSE LET st == Phase1Edges(st0, revs)
                   IN  /\ need_update' = st.need
                       /\ to_check' = st.check
                       /\ new_dirty' = [new_dirty EXCEPT
                                          !.nodes = @ \cup SeqToSet(revs)]
                       /\ UNCHANGED main
    /\ UNCHANGED <<graph, waiting, pool, hist>>

\* line 31-32: to_check is empty, the executor is created
Phase1Done ==
    /\ main.pc = "phase1"
    /\ to_check = <<>>
    /\ main' = [main EXCEPT !.pc = "seed", !.i = 1]
    /\ UNCHANGED <<graph, new_dirty, need_update, to_check, waiting, pool,
                   hist>>

\* lines 34-48: maybe_submit(node), called by the thread that runs update;
\* where the caller goes on when the call returns is ret
MaybeSubmit(node, ret) ==
    IF node \notin DOMAIN need_update
    THEN /\ main' = [ret EXCEPT !.pc = "sync", !.sync = node, !.ret = ret.pc]
         /\ hist' = BeginUpdate(hist, node)
         /\ UNCHANGED <<need_update, waiting, pool>>
    ELSE IF need_update[node] - 1 = 0
    THEN /\ need_update' = DictDel(need_update, node)
         /\ waiting' = waiting \cup {node}
         /\ pool' = [pool EXCEPT !.queue = Append(@, node)]
         /\ main' = ret
         /\ UNCHANGED hist
    ELSE /\ need_update' = DictSet(need_update, node, need_update[node] - 1)
         /\ main' = ret
         /\ UNCHANGED <<waiting, pool, hist>>

\* line 41-42: the update run by the calling thread returns, or it raises
\* and the exception leaves maybe_submit and the with block
SyncReturn ==
    /\ main.pc = "sync"
    /\ main' = IF main.sync \in graph.raises
               THEN [main EXCEPT !.pc = "exit", !.sync = "none",
                                 !.ret = "none", !.err = main.sync]
               ELSE [main EXCEPT !.pc = main.ret, !.sync = "none",
                                 !.ret = "none"]
    /\ hist' = EndUpdate(hist, main.sync)
    /\ UNCHANGED <<graph, new_dirty, need_update, to_check, waiting, pool>>

\* lines 53-54: maybe_submit of one node of dirty
Seed ==
    /\ main.pc = "seed"
    /\ main.i <= Len(graph.dirty)
    /\ MaybeSubmit(graph.dirty[main.i], [main EXCEPT !.i = main.i + 1])
    /\ UNCHANGED <<graph, new_dirty, to_check>>

\* line 56: all of dirty was submitted
SeedDone ==
    /\ main.pc = "seed"
    /\ main.i > Len(graph.dirty)
    /\ main' = [main EXCEPT !.pc = "wait"]
    /\ UNCHANGED <<graph, new_dirty, need_update, to_check, waiting, pool,
                   hist>>

\* lines 56-58: wait(waiting, FIRST_COMPLETED) returns the futures that are
\* done and keeps the others waiting
Wait ==
    /\ main.pc = "wait"
    /\ waiting \cap pool.completed # {}
    /\ main' = [main EXCEPT !.pc = "handle",
                            !.done = waiting \cap pool.completed]
    /\ waiting' = waiting \ pool.completed
    /\ UNCHANGED <<graph, new_dirty, need_update, to_check, pool, hist>>

\* lines 59-61: node = future.result() of one of the done futures;
\* result() raises the exception of an update that raised
HandleFuture ==
    /\ main.pc = "handle"
    /\ main.todo = {}
    /\ \E node \in main.done :
          main' = IF node \in graph.raises
                  THEN [main EXCEPT !.pc = "exit", !.err = node]
                  ELSE [main EXCEPT !.done = @ \ {node},
                                    !.todo = graph.rev[node]]
    /\ UNCHANGED <<graph, new_dirty, need_update, to_check, waiting, pool,
                   hist>>

\* lines 61-62: maybe_submit of one reverse dependency of the finished node
HandleEdge ==
    /\ main.pc = "handle"
    /\ \E reverse_dependency \in main.todo :
          MaybeSubmit(reverse_dependency,
                      [main EXCEPT !.todo = @ \ {reverse_dependency}])
    /\ UNCHANGED <<graph, new_dirty, to_check>>

\* line 59: all the done futures were handled
HandleDone ==
    /\ main.pc = "handle"
    /\ main.todo = {}
    /\ main.done = {}
    /\ main' = [main EXCEPT !.pc = "wait"]
    /\ UNCHANGED <<graph, new_dirty, need_update, to_check, waiting, pool,
                   hist>>

\* lines 56 and 64: waiting is empty, return new_dirty
Return ==
    /\ main.pc = "wait"
    /\ waiting = {}
    /\ main' = IF new_dirty.bound
               THEN [main EXCEPT !.pc = "returned"]
               ELSE [main EXCEPT !.pc = "raised", !.err = "NameError"]
    /\ UNCHANGED <<graph, new_dirty, need_update, to_check, waiting, pool,
                   hist>>

\* line 31, an exception leaves the with block: ThreadPoolExecutor.__exit__
\* is shutdown(wait=True), which returns when the submitted tasks have run
ExecutorExit ==
    /\ main.pc = "exit"
    /\ pool.queue = <<>>
    /\ pool.running = {}
    /\ main' = [main EXCEPT !.pc = "raised"]
    /\ UNCHANGED <<graph, new_dirty, need_update, to_check, waiting, pool,
                   hist>>

\* a thread of the executor takes the oldest submitted task: wrapper(node)
\* calls node.update(context) (lines 35-37)
WorkerStart ==
    /\ pool.queue # <<>>
    /\ Cardinality(pool.running) < graph.job_count
    /\ pool' = [pool EXCEPT !.queue = Tail(@),
                            !.running = @ \cup {Head(pool.queue)}]
    /\ hist' = BeginUpdate(hist, Head(pool.queue))
    /\ UNCHANGED <<graph, new_dirty, need_update, to_check, main, waiting>>

\* node.update(context) returns or raises in a thread of the executor: the
\* future is done
WorkerFinish ==
    /\ \E node \in pool.running :
          /\ pool' = [pool EXCEPT !.running = @ \ {node},
                                  !.completed = @ \cup {node}]
          /\ hist' = EndUpdate(hist, node)
    /\ UNCHANGED <<graph, new_dirty, need_update, to_check, main, waiting>>

\* the calling thread before line 8
MainStart ==
    [pc |-> "phase1", i |-> 0, done |-> {}, todo |-> {}, sync |-> "none",
     ret |-> "none", err |-> "none"]

\* lines 8-17 and 31: the state in which update(context, targets, dirty,
\* job_count) starts, for the graphs Context.set_targets builds
InitTraversal ==
    /\ \E E \in SUBSET EdgeCandidates, T \in SUBSET TargetNodes :
          /\ T # {}
          /\ \E selected \in SUBSET T, dirty \in DirtyLists,
                job_count \in 1..MaxWorkers, raises \in RaisingSets :
                graph = [rev |-> [n \in Nodes |->
                                    ReverseDependenciesOf(E, T, n)],
                         targets |-> [n \in Nodes |-> TargetsOf(E, T, n)],
                         selected |-> selected,
                         dirty |-> dirty,
                         job_count |-> job_count,
                         raises |-> raises]
    /\ new_dirty \in {NewDirtyUnbound, NewDirtyBound}
    /\ need_update = EmptyDict
    /\ to_check = <<HeadNode>>
    /\ main = MainStart
    /\ waiting = {}
    /\ pool = [queue |-> <<>>, running |-> {}, completed |-> {}]
    /\ hist = NoUpdates

\* no traversal is running
NoTraversal ==
    /\ graph = [rev |-> [n \in Nodes |-> {}], targets |-> [n \in Nodes |-> {}],
                selected |-> {}, dirty |-> <<>>, job_count |-> 1,
                raises |-> {}]
    /\ new_dirty = NewDirtyUnbound
    /\ need_update = EmptyDict
    /\ to_check = <<>>
    /\ main = [MainStart EXCEPT !.pc = "idle"]
    /\ waiting = {}
    /\ pool = [queue |-> <<>>, running |-> {}, completed |-> {}]
    /\ hist = NoUpdates

\* no Application was created
NoApplication ==
    /\ files = [path \in Paths |-> "v1"]
    /\ implicit_dependencies = NoneDeps
    /\ dependencies = {}

-----------------------------------------------------------------------------
(* bs/nodes.py: Node.add_dependency / remove_dependency, bs/backend.py:     *)
(* _TargetData._process_nodes (target registration), and the edges that     *)
(* Application.update learns.  A graph value g is a record                  *)
(*   nodes (node -> its fields), files (Backend.files: path -> node),       *)
(*   err (the exception the running call raised, "none" if none).           *)

Apps == {"app1", "app2"}

\* the SourceFile instances a build script creates: two of the same path
UserFiles == {"a1", "a2"}

\* the SourceFile that file_by_path creates for a path a builder read
CreatedFiles == {"b0"}

GraphNodes == Apps \cup UserFiles \cup CreatedFiles

\* SourceFile.path
PathOf(node) == IF node \in UserFiles THEN "a" ELSE "b"

\* the alias names of add_dependency(other, name); "None" is name=None
Names == {"None", "x"}

\* a set-valued field that is None / that is the set S
NoneSet == [none |-> TRUE, nodes |-> {}]
SomeSet(S) == [none |-> FALSE, nodes |-> S]

\* Node.__init__ (and Application.__init__: implicit_dependencies = None)
NewNode ==
    [dependencies |-> {}, named_dependencies |-> EmptyDict,
     reverse_dependencies |-> NoneSet, targets |-> NoneSet,
     dirty |-> "None", implicit_dependencies |-> NoneDeps]

\* the result of a call on a node: the node, and the exception raised
Returned(n) == [node |-> n, err |-> "none"]
Raised(n, err) == [node |-> n, err |-> err]

\* Mutant: the alias is recorded before the edge is checked
AddDependencyNameFirst(n, other, name) ==
    IF name # "None" /\ name \in DOMAIN n.named_dependencies
    THEN Raised(n, "RuntimeError")
    ELSE LET named == IF name # "None"
                      THEN DictSet(n.named_dependencies, name, other)
                      ELSE n.named_dependencies
         IN  IF other \in n.dependencies
             THEN Raised([n EXCEPT !.named_dependencies = named],
                         "RuntimeError")
             ELSE Returned([n EXCEPT !.named_dependencies = named,
                                     !.dependencies = @ \cup {other}])

\* Node.add_dependency(other, name)
AddDependency(n, other, name) ==
    IF other \in n.dependencies
    THEN Raised(n, "RuntimeError")
    ELSE IF name # "None" /\ name \in DOMAIN n.named_dependencies
    THEN Raised(n, "RuntimeError")
    ELSE Returned([n EXCEPT
                     !.named_dependencies =
                         IF name # "None" THEN DictSet(@, name, other) ELSE @,
                     !.dependencies = @ \cup {other}])

\* the aliases of other in the mapping named
AliasesOf(named, other) == {k \in DOMAIN named : named[k] = other}

\* Mutant: the alias of the removed node stays
RemoveDependencyKeepsAlias(n, other) ==
    IF other \notin n.dependencies
    THEN Raised(n, "RuntimeError")
    ELSE Returned([n EXCEPT !.dependencies = @ \ {other}])

\* Node.remove_dependency(other): the first alias found for other is
\* deleted (add_dependency gives a node at most one alias)
RemoveDependency(n, other) ==
    IF other \notin n.dependencies
    THEN Raised(n, "RuntimeError")
    ELSE LET aliases == AliasesOf(n.named_dependencies, other)
         IN  Returned([n EXCEPT
                !.named_dependencies =
                    IF aliases = {} THEN @
                    ELSE DictDel(@, CHOOSE k \in aliases : TRUE),
                !.dependencies = @ \ {other}])

\* the graph after a call on node u returned r
WithNode(g, u, r) == [g EXCEPT !.nodes[u] = r.node, !.err = r.err]

\* Backend._file_by_path / Context.file_by_path: the node of the path, a new
\* SourceFile with an empty targets set when the path is not in files
FileByPathIn(g, path) ==
    IF path \in DOMAIN g.files THEN g
    ELSE LET node == CHOOSE f \in CreatedFiles : PathOf(f) = path
         IN  [g EXCEPT !.files = DictSet(@, path, node),
                       !.nodes[node] = [NewNode EXCEPT !.targets = SomeSet({})]]

RECURSIVE RemoveEach(_, _, _)
\* for node in self.implicit_dependencies: self.remove_dependency(node)
RemoveEach(g, app, old) ==
    IF old = <<>> \/ g.err # "none" THEN g
    ELSE RemoveEach(WithNode(g, app, RemoveDependency(g.nodes[app], Head(old))),
                    app, Tail(old))

RECURSIVE AddEach(_, _, _)
\* for node in nodes: if node not in self.dependencies:
\*     self.add_dependency(node)
AddEach(g, app, new) ==
    IF new = <<>> \/ g.err # "none" THEN g
    ELSE AddEach(IF Head(new) \in g.nodes[app].dependencies THEN g
                 ELSE WithNode(g, app,
                               AddDependency(g.nodes[app], Head(new), "None")),
                 app, Tail(new))

\* Application._set_implicit_dependencies(nodes) of the Application app
SetImplicitDependenciesIn(g, app, implicit) ==
    LET old == g.nodes[app].implicit_dependencies
        removed == IF old.none THEN g ELSE RemoveEach(g, app, old.nodes)
    IN  IF removed.err # "none" THEN removed
        ELSE AddEach([removed EXCEPT !.nodes[app].implicit_dependencies = implicit],
                     app, implicit.nodes)

RECURSIVE FilesByPath(_, _)
\* node = context.file_by_path(path) for every path of computed_deps
FilesByPath(g, paths) ==
    IF paths = <<>> THEN g ELSE FilesByPath(FileByPathIn(g, Head(paths)), Tail(paths))

\* nodes.py:160: node.targets.union(self.targets) builds a new set and drops
\* it: the targets of the node stay as they are
TargetsUnion(node_targets, app_targets) == node_targets

\* the edges of Application.update of app, whose candidate or builder names
\* the paths: a hit is _set_implicit_dependencies(nodes), a miss is
\* _set_implicit_dependencies(None), build, _set_implicit_dependencies(nodes)
ApplicationUpdateIn(g, app, paths, hit) ==
    LET g1 == FilesByPath(g, paths)
        nodes == [i \in 1..Len(paths) |-> g1.files[paths[i]]]
        g2 == [g1 EXCEPT !.nodes =
                 [n \in GraphNodes |->
                    IF ~hit /\ n \in SeqToSet(nodes)
                    THEN [g1.nodes[n] EXCEPT !.targets =
                            TargetsUnion(@, g1.nodes[app].targets)]
                    ELSE g1.nodes[n]]]
    IN  IF hit THEN SetImplicitDependenciesIn(g1, app, ListDeps(nodes))
        ELSE LET cleared == SetImplicitDependenciesIn(g, app, NoneDeps)
             IN  IF cleared.err # "none" THEN cleared
                 ELSE SetImplicitDependenciesIn(
                          [g2 EXCEPT !.nodes[app] = cleared.nodes[app]],
                          app, ListDeps(nodes))

\* a set iterated in the order of the list order
SortBy(S, order) == SelectSeq(order, LAMBDA x : x \in S)

\* backend.py:98-117: the part of a visit after the merge, for the target
\* (the _TargetData) t
MarkNode(g, t, node) ==
    LET n == g.nodes[node]
        first == t \notin n.targets.nodes
        g1 == [g EXCEPT
                 !.nodes[node].targets = SomeSet(n.targets.nodes \cup {t}),
                 !.nodes[node].reverse_dependencies =
                     SomeSet(n.reverse_dependencies.nodes),
                 !.nodes[node].dirty = "True",
                 !.waiting[t] = IF n.dependencies = {} THEN @ \cup {node}
                                ELSE @]
    IN  [graph |-> [g1 EXCEPT !.nodes =
                      [d \in GraphNodes |->
                         IF d \in n.dependencies
                         THEN [g1.nodes[d] EXCEPT !.reverse_dependencies =
                                 SomeSet(@.nodes \cup {node})]
                         ELSE g1.nodes[d]]],
         extend |-> IF first THEN n.dependencies ELSE {}]

RECURSIVE Repoint(_, _, _, _)
\* backend.py:84-86: for revdep in node.reverse_dependencies:
\*     revdep.remove_dependency(old_node); revdep.add_dependency(node)
Repoint(g, revdeps, old_node, node) ==
    IF revdeps = <<>> \/ g.err # "none" THEN g
    ELSE LET revdep == Head(revdeps)
             removed == WithNode(g, revdep,
                                 RemoveDependency(g.nodes[revdep], old_node))
             added == IF removed.err # "none" THEN removed
                      ELSE WithNode(removed, revdep,
                                    AddDependency(removed.nodes[revdep], node,
                                                  "None"))
         IN  Repoint(added, Tail(revdeps), old_node, node)

\* backend.py:77-96: the merge of a visited SourceFile by its path; gives
\* the graph and the node the visit goes on with
MergeSourceFile(g, node, app_order) ==
    IF PathOf(node) \in DOMAIN g.files
    THEN LET canonical == g.files[PathOf(node)]
         IN  [graph |-> Repoint(g, SortBy(g.nodes[canonical]
                                            .reverse_dependencies.nodes,
                                          app_order),
                                node, canonical),
              node |-> canonical]
    ELSE [graph |-> [g EXCEPT !.files = DictSet(@, PathOf(node), node)],
          node |-> node]

RECURSIVE VisitAll(_, _, _, _, _)
\* backend.py:73-117: the loop over to_visit
VisitAll(g, t, to_visit, file_order, app_order) ==
    IF to_visit = <<>> \/ g.err # "none" THEN g
    ELSE LET node == Head(to_visit)
             merged == IF node \in Apps THEN [graph |-> g, node |-> node]
                       ELSE MergeSourceFile(g, node, app_order)
         IN  IF merged.graph.err # "none" THEN merged.graph
             ELSE LET marked == MarkNode(merged.graph, t, merged.node)
                  IN  VisitAll(marked.graph, t,
                               Tail(to_visit)
                                 \o SortBy(marked.extend, file_order),
                               file_order, app_order)

\* _TargetData(backend, target_node): _process_nodes from the target t, the
\* sets iterated in the orders file_order and app_order
ProcessNodes(g, t, file_order, app_order) ==
    VisitAll(g, t, <<t>>, file_order, app_order)

\* the graph held by the variables
TheGraph ==
    [nodes |-> node_fields, files |-> backend_files, waiting |-> waiting_nodes,
     err |-> "none"]

StoreGraph(g) ==
    /\ node_fields' = g.nodes
    /\ backend_files' = g.files
    /\ waiting_nodes' = g.waiting

\* the Applications whose update runs / the paths a candidate or a builder
\* names
UpdatedApps == {"app1"}
LearnedPaths == {<<>>, <<"b">>}

\* history: no call was made on the graph
NoGraphCall ==
    [op |-> "none", u |-> "none", other |-> "none", name |-> "None",
     aliased |-> FALSE, err |-> "none", attempted |-> {}, registered |-> {},
     edited |-> FALSE]

\* a build script (or its user) calls u.add_dependency(other, name)
GraphAdd ==
    \E u \in Apps, other \in UserFiles, name \in Names :
        LET g == WithNode(TheGraph, u,
                          AddDependency(node_fields[u], other, name))
        IN  /\ StoreGraph(g)
            /\ graph_last' = [graph_last EXCEPT
                                !.op = "add", !.u = u, !.other = other,
                                !.name = name, !.err = g.err,
                                !.aliased = FALSE,
                                !.edited = @ \/ graph_last.attempted # {}]

\* a build script (or its user) calls u.remove_dependency(other)
GraphRemove ==
    \E u \in Apps, other \in UserFiles :
        LET g == WithNode(TheGraph, u,
                          RemoveDependency(node_fields[u], other))
        IN  /\ StoreGraph(g)
            /\ graph_last' = [graph_last EXCEPT
                                !.op = "remove", !.u = u, !.other = other,
                                !.name = "None", !.err = g.err,
                                !.aliased =
                                    AliasesOf(node_fields[u].named_dependencies,
                                              other) # {},
                                !.edited = @ \/ graph_last.attempted # {}]

\* Backend.set_targets registers the target t
GraphRegister ==
    \E t \in Apps \ graph_last.attempted, app_order \in Orderings(Apps) :
      \E file_order \in Orderings(node_fields[t].dependencies) :
        LET g == ProcessNodes(TheGraph, t, file_order, app_order)
        IN  /\ StoreGraph(g)
            /\ graph_last' = [graph_last EXCEPT
                                !.op = "register", !.u = t, !.other = "none",
                                !.name = "None", !.err = g.err,
                                !.aliased = FALSE,
                                !.attempted = @ \cup {t},
                                !.registered = IF g.err = "none"
                                               THEN @ \cup {t} ELSE @]

\* the traversal calls update of a registered Application
GraphUpdate ==
    \E app \in UpdatedApps \cap graph_last.registered,
       paths \in LearnedPaths, hit \in BOOLEAN :
        LET g == ApplicationUpdateIn(TheGraph, app, paths, hit)
        IN  /\ StoreGraph(g)
            /\ graph_last' = [graph_last EXCEPT
                                !.op = "update", !.u = app, !.other = "none",
                                !.name = "None", !.err = g.err,
                                !.aliased = FALSE]

\* the nodes as the build script creates them, nothing registered
InitGraph ==
    /\ node_fields = [n \in GraphNodes |-> NewNode]
    /\ backend_files = EmptyDict
    /\ graph_last = NoGraphCall
    /\ waiting_nodes = [t \in Apps |-> {}]

-----------------------------------------------------------------------------
(* Calls on a Cache made directly by its user (tests/cache_test.py).        *)

\* no worker thread calls the cache
NoThreads ==
    /\ threads = <<>>
    /\ before = EmptyCache

\* Backend.update is not called
NoChannel == channel = <<>>

\* sha1_iterable is not called
NoHashing == hashed = <<>>

\* no service runs
NoService == service = <<>>

\* no Application is updated by worker threads, no file index is in use
NoEngine == apps = <<>> /\ file_index = <<>>

\* the parts added after the graph are not in use
NoMore == NoThreads /\ NoChannel /\ NoHashing /\ NoService /\ NoEngine

NoCall ==
    [op |-> "none", hash |-> "none", big |-> FALSE, err |-> "none",
     evicted |-> 0, again |-> FALSE]

CachePut ==
    \E final_hash \in FullHashes, partial_hash \in PartialHashes,
       paths \in PathLists :
        LET r == Put(TheCache, final_hash, partial_hash, paths,
                     DepsOf(final_hash))
        IN  /\ StoreCache(r)
            /\ inserted' = InsertedAfter(r, final_hash, TRUE)
            /\ last' = [op |-> "put", hash |-> final_hash,
                        big |-> (SumSeq(paths) > SizeLimit),
                        err |-> r.err, evicted |-> r.evicted]

CacheAccessed ==
    \E final_hash \in FullHashes :
        LET r == Accessed(TheCache, final_hash)
        IN  /\ StoreCache(r)
            /\ inserted' = InsertedAfter(r, final_hash, FALSE)
            /\ last' = [op |-> "accessed", hash |-> final_hash, big |-> FALSE,
                        err |-> r.err, evicted |-> 0]

CacheGet ==
    \E partial_hash \in PartialHashes :
        /\ last' = [NoCall EXCEPT !.op = "get", !.hash = partial_hash]
        /\ UNCHANGED <<data, partial_hashes, size_used, size_limit, disk, dirs, meta,
                       inserted>>

CacheClear ==
    LET r == Clear(TheCache)
    IN  /\ StoreCache(r)
        /\ inserted' = <<>>
        /\ last' = [NoCall EXCEPT !.op = "clear", !.err = r.err,
                                  !.again = (last.op = "clear")]

InitCache ==
    /\ NoApplication
    /\ InitGraph
    /\ NoMore
    /\ NoTraversal
    /\ data = EmptyCache.data
    /\ partial_hashes = EmptyCache.ph
    /\ size_used = EmptyCache.used
    /\ size_limit = EmptyCache.limit
    /\ disk = EmptyCache.disk
    /\ dirs = EmptyCache.dirs
    /\ meta = EmptyCache.meta
    /\ inserted = <<>>
    /\ last = NoCall

NextCache ==
    \/ CachePut /\ UNCHANGED <<appVars, travVars, graphVars, moreVars>>
    \/ CacheAccessed /\ UNCHANGED <<appVars, travVars, graphVars, moreVars>>
    \/ CacheGet /\ UNCHANGED <<appVars, travVars, graphVars, moreVars>>
    \/ CacheClear /\ UNCHANGED <<appVars, travVars, graphVars, moreVars>>

SpecCache == InitCache /\ [][NextCache]_vars

-----------------------------------------------------------------------------
(* Claims about the Cache, checked under SpecCache                          *)

NoDuplicates(s) == \A i, j \in 1..Len(s) : s[i] = s[j] => i = j

\* C2: after any sequence of put, accessed, evictions and clear the two
\* indices agree: every bucket is non-empty and duplicate-free, every full
\* hash listed in a bucket is a key of the primary map whose entry points
\* back to that partial hash, and every key of the primary map is listed in
\* exactly one bucket.
C2_IndicesConsistent ==
    /\ NoDuplicates([i \in 1..Len(data) |-> data[i].hash])
    /\ \A p \in DOMAIN partial_hashes :
          /\ partial_hashes[p] # <<>>
          /\ NoDuplicates(partial_hashes[p])
          /\ \A h \in SeqToSet(partial_hashes[p]) :
                /\ h \in Keys(data)
                /\ Item(data, h).partial_hash = p
    /\ \A h \in Keys(data) :
          Cardinality({p \in DOMAIN partial_hashes :
                          h \in SeqToSet(partial_hashes[p])}) = 1

\* a put evicted an entry and left both buckets in use
C2_Witness ==
    /\ last.op = "put" /\ last.err = "none" /\ last.evicted >= 1
    /\ Len(data) >= 2
    /\ Cardinality(DOMAIN partial_hashes) = 2

DirSize(h) == IF h \in DOMAIN disk THEN SumSeq(disk[h]) ELSE 0

\* C3: whenever a call has returned, normally or with an error, size_used is
\* the sum of the sizes of the files on disk in the directories of the
\* entries of the primary map, and the sum of the recorded entry sizes.
C3_SizeUsedIsDiskSize ==
    /\ size_used = SumSeq([i \in 1..Len(data) |-> DirSize(data[i].hash)])
    /\ size_used = SumSeq([i \in 1..Len(data) |-> data[i].size])

\* a put returned with an error after it had evicted an entry
C3_Witness ==
    /\ last.op = "put" /\ last.err # "none" /\ last.evicted >= 1

\* C4: after a put that returned successfully size_used <= size_limit and the
\* new entry is in the primary map, in a partial hash bucket and on disk.
C4_PutFitsAndKeepsNewEntry ==
    (last.op = "put" /\ last.err = "none") =>
        /\ size_used <= SizeLimit
        /\ last.hash \in Keys(data)
        /\ \E p \in DOMAIN partial_hashes :
              /\ last.hash \in SeqToSet(partial_hashes[p])
              /\ Item(data, last.hash).partial_hash = p
        /\ last.hash \in DOMAIN disk
        /\ DirSize(last.hash) = Item(data, last.hash).size

\* a successful put that had to evict, and filled the cache
C4_Witness ==
    /\ last.op = "put" /\ last.err = "none" /\ last.evicted >= 1
    /\ size_used = SizeLimit

\* the sizes of the first k entries of d
PrefixSize(d, k) == SumSeq([i \in 1..k |-> d[i].size])

\* C5: a successful put evicts exactly the shortest prefix of the LRU order
\* (head of data = least recently put or accessed) that makes the new item
\* fit, keeps the order of the survivors and makes the new entry MRU-most.
C5_PutEvictsShortestLruPrefix ==
    [][(last'.op = "put" /\ last'.err = "none") =>
         LET k == last'.evicted
             new == data'[Len(data')]
         IN  /\ k <= Len(data)
             /\ data' = Append(SubSeq(data, k + 1, Len(data)), new)
             /\ new.hash = last'.hash
             /\ size_used - PrefixSize(data, k) + new.size <= SizeLimit
             /\ \A j \in 0..(k - 1) :
                   size_used - PrefixSize(data, j) + new.size > SizeLimit
      ]_vars

\* a put evicted the LRU entry only, and an older entry survived
C5_Witness ==
    /\ last.op = "put" /\ last.err = "none" /\ last.evicted = 1
    /\ Len(data) = 2

\* C6: a put whose total size exceeds size_limit fails with the
\* cache-too-small error and leaves the primary map, the partial index,
\* size_used and the directories as they were.
C6_TooLargePutLeavesCacheUnchanged ==
    [][(last'.op = "put" /\ last'.big /\ last'.err # "AssertionError") =>
         /\ last'.err = "RuntimeError"
         /\ UNCHANGED <<data, partial_hashes, size_used, disk>>
      ]_vars

\* C7: get_candidate_implicit_dependencies(partial_hash) lists the implicit
\* dependencies of exactly the stored entries of that partial hash, oldest
\* put first, whatever was accessed or evicted since; it is empty for a
\* partial hash without entries, and the call leaves the cache as it was.
C7_CandidatesInInsertionOrder ==
    /\ [](/\ SeqToSet(inserted) = Keys(data)
          /\ \A p \in PartialHashes :
                LET hs == SelectSeq(inserted,
                                    LAMBDA h : Item(data, h).partial_hash = p)
                IN  GetCandidateImplicitDependencies(TheCache, p)
                        = [i \in 1..Len(hs) |->
                              Item(data, hs[i]).implicit_dependencies])
    /\ [][last'.op = "get" =>
             UNCHANGED <<data, partial_hashes, size_used, disk>>]_vars

\* an older entry of a two-entry bucket was accessed (it is MRU-most, and
\* still first in its bucket) after another entry had been evicted
C7_Witness ==
    /\ last.op = "accessed" /\ last.err = "none"
    /\ \E p \in DOMAIN partial_hashes :
          /\ Len(partial_hashes[p]) = 2
          /\ partial_hashes[p][1] = last.hash
    /\ Len(data) = 2

\* d without the entry of h
Without(d, h) == SelectSeq(d, LAMBDA e : e.hash # h)

\* C8: accessed(full_hash) on a stored entry moves it to MRU-most and changes
\* nothing else; on a full hash that is not stored it fails and changes
\* nothing.
C8_AccessedMovesOnlyThatEntry ==
    [][last'.op = "accessed" =>
         /\ UNCHANGED <<partial_hashes, size_used, disk>>
         /\ IF last'.hash \in Keys(data)
            THEN /\ last'.err = "none"
                 /\ data' = Append(Without(data, last'.hash),
                                   Item(data, last'.hash))
            ELSE /\ last'.err # "none"
                 /\ data' = data
      ]_vars

\* the entry accessed last is MRU-most among three entries
C8_Witness ==
    /\ last.op = "accessed" /\ last.err = "none"
    /\ Len(data) = 3
    /\ data[3].hash = last.hash

-----------------------------------------------------------------------------
(* Updates of the Application over a cache shared with another one          *)

InitApp ==
    /\ InitApplication
    /\ InitGraph
    /\ NoMore
    /\ NoTraversal
    /\ data = EmptyCache.data
    /\ partial_hashes = EmptyCache.ph
    /\ size_used = EmptyCache.used
    /\ size_limit = EmptyCache.limit
    /\ disk = EmptyCache.disk
    /\ dirs = EmptyCache.dirs
    /\ meta = EmptyCache.meta
    /\ inserted = <<>>
    /\ last = [op |-> "none", built |-> 0, found |-> 0, err |-> "none",
               evicted |-> 0, after |-> FALSE]

NextApp ==
    \/ ApplicationUpdate /\ UNCHANGED <<travVars, graphVars, moreVars>>
    \/ FileChanges /\ UNCHANGED <<travVars, graphVars, moreVars>>
    \/ OtherPut /\ UNCHANGED <<travVars, graphVars, moreVars>>

SpecApp == InitApp /\ [][NextApp]_vars

-----------------------------------------------------------------------------
(* Claims about Application.update, checked under SpecApp                   *)

\* the candidates whose every (path, hash) is the current hash of the file
Matching(candidates) ==
    {i \in 1..Len(candidates) :
        \A k \in 1..Len(candidates[i]) :
            files[candidates[i][k].path] = candidates[i][k].hash}

\* C9: update tries the candidates of its partial hash in cache order and
\* accepts the first one whose every (path, hash) is the current hash of the
\* file; then build is not invoked and the implicit dependencies become that
\* candidate's nodes; when none is accepted build is invoked exactly once.
C9_FirstMatchingCandidateWins ==
    [][last'.op = "update" =>
         LET candidates == GetCandidateImplicitDependencies(TheCache,
                                                            GetHashOf(NoneDeps))
             m == Matching(candidates)
         IN  IF m # {}
             THEN LET first == CHOOSE i \in m : \A j \in m : i <= j
                  IN  /\ last'.built = 0
                      /\ implicit_dependencies' =
                            ListDeps([k \in 1..Len(candidates[first]) |->
                                         candidates[first][k].path])
             ELSE last'.built = 1
      ]_vars

\* C10: an update that directly follows a completed miss-path update (nothing
\* changed, nothing was evicted in between) does not build, and leaves the
\* implicit dependencies and the full fingerprint as they were.
C10_PriorOutputsReused ==
    [][(MissCompleted /\ last'.op = "update") =>
         /\ last'.built = 0
         /\ last'.found # 0
         /\ implicit_dependencies' = implicit_dependencies
         /\ GetHash' = GetHash
      ]_vars

\* the update after a completed miss hit an entry that has implicit
\* dependencies and shares the cache with another entry
C10_Witness ==
    /\ last.op = "update" /\ last.after /\ last.built = 0
    /\ ~implicit_dependencies.none /\ implicit_dependencies.nodes # <<>>
    /\ Len(data) = 2

-----------------------------------------------------------------------------
(* One call of traversal.update, for every registered graph, selection of   *)
(* targets, dirty list and job_count                                        *)

InitTrav ==
    /\ InitTraversal
    /\ InitGraph
    /\ NoMore
    /\ NoApplication
    /\ data = EmptyCache.data
    /\ partial_hashes = EmptyCache.ph
    /\ size_used = EmptyCache.used
    /\ size_limit = EmptyCache.limit
    /\ disk = EmptyCache.disk
    /\ dirs = EmptyCache.dirs
    /\ meta = EmptyCache.meta
    /\ inserted = <<>>
    /\ last = NoCall

NextTrav ==
    \/ Phase1Visit /\ UNCHANGED <<cacheVars, appVars, graphVars, moreVars>>
    \/ Phase1Done /\ UNCHANGED <<cacheVars, appVars, graphVars, moreVars>>
    \/ Seed /\ UNCHANGED <<cacheVars, appVars, graphVars, moreVars>>
    \/ SeedDone /\ UNCHANGED <<cacheVars, appVars, graphVars, moreVars>>
    \/ SyncReturn /\ UNCHANGED <<cacheVars, appVars, graphVars, moreVars>>
    \/ Wait /\ UNCHANGED <<cacheVars, appVars, graphVars, moreVars>>
    \/ HandleFuture /\ UNCHANGED <<cacheVars, appVars, graphVars, moreVars>>
    \/ HandleEdge /\ UNCHANGED <<cacheVars, appVars, graphVars, moreVars>>
    \/ HandleDone /\ UNCHANGED <<cacheVars, appVars, graphVars, moreVars>>
    \/ Return /\ UNCHANGED <<cacheVars, appVars, graphVars, moreVars>>
    \/ ExecutorExit /\ UNCHANGED <<cacheVars, appVars, graphVars, moreVars>>
    \/ WorkerStart /\ UNCHANGED <<cacheVars, appVars, graphVars, moreVars>>
    \/ WorkerFinish /\ UNCHANGED <<cacheVars, appVars, graphVars, moreVars>>

SpecTraversal == InitTrav /\ [][NextTrav]_vars

-----------------------------------------------------------------------------
(* Claims about traversal.update, checked under SpecTraversal               *)

\* C1: for any two nodes D and N where N depends on D directly or through a
\* dependency path and both are updated, the update of D has fully returned
\* before the update of N begins; and two updates run at the same time only
\* if no dependency path connects the two nodes.
C1_DependenciesUpdatedFirst ==
    /\ \A D \in Nodes, N \in Nodes :
          (DependsOn(N, D) /\ D \in hist.started /\ N \in hist.started)
              => <<D, N>> \in hist.before
    /\ \A X \in Updating, Y \in Updating : ~DependsOn(X, Y)

\* the nodes reachable through reverse edges from the initial dirty set
ReachableFromDirty == Dependents(SeqToSet(graph.dirty))

\* the traversal ended: update returned or raised
TraversalEnded == main.pc \in {"returned", "raised"}

\* C11: when no update raises, the traversal terminates (update returns)
\* with the pool drained and no blocker count left in need_update, and
\* every node that belongs to a selected target and is reachable through
\* reverse edges from dirty had its update called exactly once.
C11_TerminatesEveryNodeUpdatedOnce ==
    (graph.raises = {} /\ TraversalEnded)
        => /\ main.pc = "returned"
           /\ pool.queue = <<>> /\ pool.running = {} /\ waiting = {}
           /\ DOMAIN need_update = {}
           /\ \A n \in ReachableFromDirty :
                 graph.targets[n] \cap graph.selected # {}
                     => hist.calls[n] = 1

\* C12: the update of a node that belongs to no selected target is never
\* called during the traversal.
C12_OutOfTargetNeverUpdated ==
    \A n \in hist.started : graph.targets[n] \cap graph.selected # {}

\* C13: once an update has raised no update begins, the updates that were
\* running have returned when the traversal ends, and the exception that
\* update propagates is the one that was raised first.
C13_NoStartAfterRaiseFirstPropagated ==
    /\ hist.late = {}
    /\ (main.pc = "raised" /\ hist.raised # <<>>)
           => (pool.running = {} /\ main.err = hist.raised[1])

-----------------------------------------------------------------------------
(* The graph of a build script: edges added and removed, targets            *)
(* registered, the Application app1 updated                                 *)

InitGraphSpec ==
    /\ InitGraph
    /\ NoMore
    /\ NoTraversal
    /\ NoApplication
    /\ data = EmptyCache.data
    /\ partial_hashes = EmptyCache.ph
    /\ size_used = EmptyCache.used
    /\ size_limit = EmptyCache.limit
    /\ disk = EmptyCache.disk
    /\ dirs = EmptyCache.dirs
    /\ meta = EmptyCache.meta
    /\ inserted = <<>>
    /\ last = NoCall

NextGraph ==
    \/ GraphAdd /\ UNCHANGED <<cacheVars, appVars, travVars, moreVars>>
    \/ GraphRemove /\ UNCHANGED <<cacheVars, appVars, travVars, moreVars>>
    \/ GraphRegister /\ UNCHANGED <<cacheVars, appVars, travVars, moreVars>>
    \/ GraphUpdate /\ UNCHANGED <<cacheVars, appVars, travVars, moreVars>>

SpecGraph == InitGraphSpec /\ [][NextGraph]_vars

-----------------------------------------------------------------------------
(* bs/cache.py: save, _load, verify_state, __enter__                        *)

\* the directories HH that exist below the cache directory
ParentDirectories(c) == c.dirs

\* the directories of entries that exist in the directory HH
LeafDirectories(c, hh) == {h \in DOMAIN c.disk : HexPrefix(h) = hh}

\* pickler.dump(1), dump(size_used), dump(_data), dump(_partial_hashes):
\* the objects of the file, in the order they are written
Pickle(c) == [kind |-> "pickle", objects |-> <<1, c.used, c.data, c.ph>>]

\* Cache.save: nothing is written for an empty cache
Save(c) ==
    IF Len(c.data) = 0 THEN c ELSE [c EXCEPT !.meta = Pickle(c)]

\* the size of all the files below the cache directory
DiskSize(c) ==
    LET RECURSIVE Sum(_)
        Sum(S) == IF S = {} THEN 0
                  ELSE LET h == CHOOSE x \in S : TRUE
                       IN  SumSeq(c.disk[h]) + Sum(S \ {h})
    IN  Sum(DOMAIN c.disk)

\* check_paths(self.directory, False) of verify_state: no file lies outside
\* the directories of the entries, and no directory is empty besides them
PathsValid(c) ==
    /\ c.meta.kind = "missing"
    /\ ParentDirectories(c) # {}
    /\ \A hh \in ParentDirectories(c) :
          /\ LeafDirectories(c, hh) # {}
          /\ LeafDirectories(c, hh) \subseteq Keys(c.data)

\* self.size_limit: float("inf") while __enter__ loads, the limit otherwise
Unlimited == [finite |-> FALSE, bytes |-> 0]
Limited == [finite |-> TRUE, bytes |-> SizeLimit]

\* Cache.verify_state
VerifyState(c, limit) ==
    /\ \A p \in DOMAIN c.ph :
          /\ c.ph[p] # <<>>
          /\ \A i, j \in 1..Len(c.ph[p]) : i # j => c.ph[p][i] # c.ph[p][j]
          /\ \A i \in 1..Len(c.ph[p]) :
                /\ c.ph[p][i] \in Keys(c.data)
                /\ Item(c.data, c.ph[p][i]).partial_hash = p
    /\ \A h \in Keys(c.data) :
          \E p \in DOMAIN c.ph : h \in SeqToSet(c.ph[p])
    /\ (c.dirs # {} \/ c.meta.kind # "missing") => PathsValid(c)
    /\ DiskSize(c) = c.used
    /\ limit.finite => DiskSize(c) <= limit.bytes

\* Cache._load: gives the cache and ok, what _load returned; err is the
\* exception that left _load
Load(c) ==
    LET unlinked == [c EXCEPT !.meta = NoMetadata]
        n == Len(c.meta.objects)
    IN  IF c.meta.kind = "missing"
        THEN [cache |-> c, ok |-> FALSE]
        ELSE IF c.meta.kind # "pickle"
        THEN [cache |-> unlinked, ok |-> FALSE]
        ELSE LET read == [unlinked EXCEPT
                            !.used = IF n >= 2 THEN c.meta.objects[2] ELSE @,
                            !.data = IF n >= 3 THEN c.meta.objects[3] ELSE @,
                            !.ph = IF n >= 4 THEN c.meta.objects[4] ELSE @]
             IN  IF n < 4
                 THEN [cache |-> [read EXCEPT !.err = "EOFError"],
                       ok |-> FALSE]
                 ELSE [cache |-> read, ok |-> VerifyState(read, Unlimited)]

\* Cache.__enter__: load, and clear when the load did not succeed
Enter(c) ==
    LET loaded == Load([c EXCEPT !.err = "none", !.evicted = 0])
    IN  IF loaded.cache.err # "none" THEN loaded
        ELSE IF ~loaded.ok THEN [cache |-> Clear(loaded.cache), ok |-> FALSE]
        ELSE loaded

\* Cache(directory, size_limit): clear(False), the directory is kept
Reopened(c, limit) ==
    [c EXCEPT !.used = 0, !.data = <<>>, !.ph = EmptyDict, !.limit = limit,
              !.err = "none", !.evicted = 0]

\* what a damaged metadata file holds: bytes that are no pickle
\* (UnpicklingError), or the first objects of the file only
Damaged(m) ==
    {[kind |-> "damaged", objects |-> <<>>]}
        \cup {[kind |-> "pickle", objects |-> SubSeq(m.objects, 1, k)] :
                 k \in {0, 2}}

\* the puts and accesses between saves
PersistHashes == {"f1", "f2", "f3"}

\* the size limits a Cache is constructed with over the directory: the
\* limit of the cache that saved, and smaller ones
ReopenLimits == {SizeLimit, 0}

\* the puts made: the full hash, and the sizes of the files moved
PersistPuts ==
    {<<"f1", <<>>>>, <<"f1", <<2>>>>, <<"f2", <<2>>>>,
     <<"f3", <<>>>>, <<"f3", <<3, 3>>>>}

NoPersistCall ==
    [op |-> "none", hash |-> "none", big |-> FALSE, err |-> "none",
     evicted |-> 0, ok |-> FALSE, fresh |-> FALSE, size |-> 0]

\* the body of "with Cache(directory) as cache" runs when __enter__ returned
Entered == ~(last.op = "enter" /\ last.err # "none")

PersistPut ==
    \E call \in PersistPuts :
        LET final_hash == call[1]
            paths == call[2]
            r == Put(TheCache, final_hash, "p1", paths, DepsOf(final_hash))
        IN  /\ Entered
            /\ StoreCache(r)
            /\ UNCHANGED inserted
            /\ last' = [NoPersistCall EXCEPT
                          !.op = "put", !.hash = final_hash,
                          !.big = (SumSeq(paths) > size_limit),
                          !.size = SumSeq(paths),
                          !.err = r.err, !.evicted = r.evicted]

PersistAccessed ==
    \E final_hash \in PersistHashes :
        LET r == Accessed(TheCache, final_hash)
        IN  /\ Entered
            /\ StoreCache(r)
            /\ UNCHANGED inserted
            /\ last' = [NoPersistCall EXCEPT
                          !.op = "accessed", !.hash = final_hash,
                          !.err = r.err]

\* Cache.save() (also Cache.__exit__)
PersistSave ==
    LET r == Save(TheCache)
    IN  /\ Entered
        /\ StoreCache(r)
        /\ last' = [NoPersistCall EXCEPT !.op = "save"]
        /\ UNCHANGED inserted

\* Cache(directory, size_limit).__enter__(): a new Cache over the directory
\* is entered
PersistEnter ==
    \E limit \in ReopenLimits :
    LET r == Enter(Reopened(TheCache, limit))
    IN  /\ StoreCache(r.cache)
        /\ UNCHANGED inserted
        /\ last' = [NoPersistCall EXCEPT
                      !.op = "enter", !.err = r.cache.err, !.ok = r.ok,
                      !.fresh = (last.op = "save" /\ data # <<>>)]

\* the metadata file is damaged between a save and the next load
PersistDamage ==
    /\ meta.kind = "pickle"
    /\ Len(meta.objects) = 4
    /\ \E m \in Damaged(meta) :
          /\ meta' = m
          /\ last' = [NoPersistCall EXCEPT !.op = "damage"]
    /\ UNCHANGED <<data, partial_hashes, size_used, size_limit, disk, dirs, inserted>>

InitPersist ==
    /\ NoApplication
    /\ NoTraversal
    /\ InitGraph
    /\ NoMore
    /\ data = EmptyCache.data
    /\ partial_hashes = EmptyCache.ph
    /\ size_used = EmptyCache.used
    /\ size_limit = EmptyCache.limit
    /\ disk = EmptyCache.disk
    /\ dirs = EmptyCache.dirs
    /\ meta = EmptyCache.meta
    /\ inserted = <<>>
    /\ last = NoPersistCall

NextPersist ==
    \/ PersistPut /\ UNCHANGED <<appVars, travVars, graphVars, moreVars>>
    \/ PersistAccessed /\ UNCHANGED <<appVars, travVars, graphVars, moreVars>>
    \/ PersistSave /\ UNCHANGED <<appVars, travVars, graphVars, moreVars>>
    \/ PersistEnter /\ UNCHANGED <<appVars, travVars, graphVars, moreVars>>
    \/ PersistDamage /\ UNCHANGED <<appVars, travVars, graphVars, moreVars>>

SpecPersist == InitPersist /\ [][NextPersist]_vars

\* C22: clear empties the cache: after it size_used is 0, the primary map
\* and the directory are empty and get_candidate_implicit_dependencies
\* returns the empty list for every partial hash; and a clear that follows a
\* clear, when the directory is already gone, returns without an error and
\* leaves the same empty state.
C22_ClearEmptiesAndIsIdempotent ==
    [][last'.op = "clear" =>
         /\ last'.err = "none"
         /\ size_used' = 0
         /\ data' = <<>>
         /\ disk' = EmptyDict /\ dirs' = {}
         /\ \A p \in PartialHashes :
               GetCandidateImplicitDependencies(
                   [data |-> data', ph |-> partial_hashes'], p) = <<>>
         /\ last.op = "clear" =>
               UNCHANGED <<data, partial_hashes, size_used, disk, dirs, meta>>
      ]_vars

\* a clear followed a clear, and found the directory already gone
C22_Witness ==
    /\ last.op = "clear" /\ last.again /\ last.err = "none"
    /\ inserted = <<>> /\ dirs = {}

-----------------------------------------------------------------------------
(* Claims about saving and loading, checked under SpecPersist               *)

\* the step is a load that directly follows a save on the same directory
LoadAfterSave == last.op = "save" /\ last'.op = "enter"

\* C19: a save followed by a load on the same directory either gives back
\* the saved primary map in its MRU order, the saved partial index and the
\* saved size_used, or the load reports that it failed and the cache is
\* empty; there is no third outcome.
C19_SaveLoadRoundTrip ==
    [][LoadAfterSave =>
          \/ /\ last'.ok
             /\ last'.err = "none"
             /\ data' = data
             /\ partial_hashes' = partial_hashes
             /\ size_used' = size_used
          \/ /\ ~last'.ok
             /\ last'.err = "none"
             /\ data' = <<>>
             /\ partial_hashes' = EmptyDict
             /\ size_used' = 0]_vars

\* C20: loading never raises, and whatever the metadata file holds (nothing,
\* bytes that cannot be decoded, a state that no longer matches the
\* directories) the cache ends in a state for which verify_state holds or in
\* the empty state.
C20_LoadNeverRaisesEndsValidOrEmpty ==
    last.op = "enter" =>
        /\ last.err = "none"
        /\ \/ VerifyState(TheCache, Limited)
           \/ /\ data = <<>>
              /\ partial_hashes = EmptyDict
              /\ size_used = 0

-----------------------------------------------------------------------------
(* Claims about the graph, checked under SpecGraph                          *)

\* the reverse dependencies / the targets of a node, none when None
ReverseSet(n) == node_fields[n].reverse_dependencies.nodes
TargetSet(n) == node_fields[n].targets.nodes

\* C14: the forward and the reverse edge sets are symmetric: v is in the
\* dependencies of u if and only if u is in the reverse dependencies of v.
C14_EdgesSymmetric ==
    \A u \in GraphNodes, v \in GraphNodes :
        v \in node_fields[u].dependencies <=> u \in ReverseSet(v)

RECURSIVE ForwardReach(_)
\* the nodes reachable from the nodes S through forward edges
ForwardReach(S) ==
    LET next == S \cup UNION {node_fields[n].dependencies : n \in S}
    IN  IF next = S THEN S ELSE ForwardReach(next)

\* C15: after targets are registered and after Application updates that
\* learn implicit dependencies (no edge edited by hand since the first
\* registration), a registered target t is in n.targets if and only if n is
\* reachable from t through forward edges.
C15_TargetMembershipExact ==
    ~graph_last.edited
        => \A t \in graph_last.registered, n \in GraphNodes :
              t \in TargetSet(n) <=> n \in ForwardReach({t})

\* C16: a registration (no edge edited by hand since the first one)
\* completes without error, and after it every SourceFile that a registered
\* node depends on is the instance the file index holds for its path.
C16_SourceFilesMergedByPath ==
    (graph_last.op = "register" /\ ~graph_last.edited)
        => /\ graph_last.err = "none"
           /\ \A u \in GraphNodes :
                 ~node_fields[u].targets.none
                     => \A v \in node_fields[u].dependencies \ Apps :
                           /\ PathOf(v) \in DOMAIN backend_files
                           /\ backend_files[PathOf(v)] = v

\* the node on which the last call was made, before and after the call
NodeCalled == node_fields[graph_last'.u]
NodeAfterCall == node_fields'[graph_last'.u]

\* C17: add_dependency(other, name) raises when the edge exists or the name
\* is used, remove_dependency(other) raises when the edge does not exist,
\* and a call that raises leaves dependencies and named_dependencies of the
\* node unchanged.
C17_FailedEdgeCallsChangeNothing ==
    [][/\ (graph_last'.op = "add"
           /\ (\/ graph_last'.other \in NodeCalled.dependencies
               \/ (graph_last'.name # "None"
                   /\ graph_last'.name \in DOMAIN NodeCalled.named_dependencies)))
          => graph_last'.err # "none"
       /\ (graph_last'.op = "remove"
           /\ graph_last'.other \notin NodeCalled.dependencies)
          => graph_last'.err # "none"
       /\ (graph_last'.op \in {"add", "remove"} /\ graph_last'.err # "none")
          => /\ NodeAfterCall.dependencies = NodeCalled.dependencies
             /\ NodeAfterCall.named_dependencies = NodeCalled.named_dependencies
      ]_vars

\* an add_dependency that raised because the name was used, on a new edge
C17_Witness ==
    /\ graph_last.op = "add" /\ graph_last.err = "RuntimeError"
    /\ graph_last.name = "x"
    /\ graph_last.other \notin node_fields[graph_last.u].dependencies
    /\ "x" \in DOMAIN node_fields[graph_last.u].named_dependencies

\* C18: every node that an alias maps to is in dependencies, and after
\* remove_dependency(other) returned no alias maps to other.
C18_AliasesAreDependencies ==
    /\ \A u \in GraphNodes :
          \A k \in DOMAIN node_fields[u].named_dependencies :
              node_fields[u].named_dependencies[k] \in node_fields[u].dependencies
    /\ (graph_last.op = "remove" /\ graph_last.err = "none")
          => AliasesOf(node_fields[graph_last.u].named_dependencies,
                       graph_last.other) = {}

\* remove_dependency returned for a node that had an alias
C18_Witness ==
    /\ graph_last.op = "remove" /\ graph_last.err = "none"
    /\ graph_last.aliased
    /\ node_fields[graph_last.u].dependencies # {}

\* the cache and its directory agree, the metadata file left aside
DirectoryValid == VerifyState([TheCache EXCEPT !.meta = NoMetadata], Unlimited)

\* C21: when the metadata that a valid cache has just saved is loaded into a
\* cache whose size_limit is smaller than the saved size_used, the load
\* succeeds and every saved entry is there after it, in the saved order; and
\* the next put of an item that fits the limit (also one of size zero)
\* returns, having evicted the shortest prefix of the LRU order that brings
\* size_used plus the new size to at most size_limit.
C21_SmallerLimitEvictsOnNextPut ==
    [][/\ (/\ last.op = "save" /\ last'.op = "enter"
           /\ data # <<>> /\ DirectoryValid
           /\ size_limit' < size_used)
          => /\ last'.ok /\ last'.err = "none"
             /\ data' = data
             /\ partial_hashes' = partial_hashes
             /\ size_used' = size_used
       /\ (/\ last.op = "enter" /\ last.ok /\ size_used > size_limit
           /\ last.fresh
           /\ last'.op = "put" /\ ~last'.big
           /\ last'.hash \notin Keys(data))
          => LET k == last'.evicted
                 new == data'[Len(data')]
             IN  /\ last'.err = "none"
                 /\ k >= 1 /\ k <= Len(data)
                 /\ data' = Append(SubSeq(data, k + 1, Len(data)), new)
                 /\ new.hash = last'.hash /\ new.size = last'.size
                 /\ size_used' = size_used - PrefixSize(data, k) + new.size
                 /\ size_used' <= size_limit
                 /\ \A j \in 0..(k - 1) :
                       size_used - PrefixSize(data, j) + new.size > size_limit
      ]_vars

-----------------------------------------------------------------------------
(* Worker threads of the executor (bs/traversal.py: wrapper runs            *)
(* node.update in a pool thread) that call one Cache at the same time.      *)
(* bs/cache.py takes no lock: a thread may be switched after any statement. *)
(* A put advances by the statements of put, _reserve_space and _discard_one; *)
(* accessed and get_candidate_implicit_dependencies run in one step.        *)

Threads == {"t1", "t2"}

\* the calls a worker makes
ThreadCalls ==
    {[op |-> "put", hash |-> "f1", partial |-> "p1", paths |-> <<3>>],
     [op |-> "put", hash |-> "f2", partial |-> "p1", paths |-> <<1>>],
     [op |-> "accessed", hash |-> "f3", partial |-> "p1", paths |-> <<>>],
     [op |-> "get", hash |-> "f3", partial |-> "p1", paths |-> <<>>]}

\* the cache the workers share: one entry, put before they started
SharedCache ==
    Put(EmptyCache, "f3", "p1", <<2>>, DepsOf("f3"))

NoItem == MkItem("none", 0, "none", <<>>)

\* a worker that has not begun its call
NewThread(call) ==
    [call |-> call, pc |-> "start", size |-> 0, item |-> NoItem,
     err |-> "none", ret |-> <<>>]

\* the thread t goes on to pc / ends with the exception err
Goto(t, pc) == threads' = [threads EXCEPT ![t].pc = pc]
RaiseIn(t, err) == threads' = [threads EXCEPT ![t].pc = "done", ![t].err = err]

At(t, op, pc) == threads[t].call.op = op /\ threads[t].pc = pc

\* put: the two asserts, and size = sum(path.stat().st_size for path in paths)
PutAssert(t) ==
    LET call == threads[t].call
    IN  /\ At(t, "put", "start")
        /\ IF call.hash \in Keys(data)
              \/ (call.partial \in DOMAIN partial_hashes
                  /\ call.hash \in SeqToSet(partial_hashes[call.partial]))
           THEN RaiseIn(t, "AssertionError")
           ELSE threads' = [threads EXCEPT ![t].pc = "insert",
                                           ![t].size = SumSeq(call.paths)]
        /\ UNCHANGED <<cacheVars, before>>

\* put: self._data[final_hash] = _Item(...): a key that is there keeps its
\* place
PutInsert(t) ==
    LET call == threads[t].call
        item == MkItem(call.hash, threads[t].size, call.partial,
                       DepsOf(call.hash))
    IN  /\ At(t, "put", "insert")
        /\ data' = IF call.hash \in Keys(data)
                   THEN [data EXCEPT ![IndexOf(data, call.hash)] = item]
                   ELSE Append(data, item)
        /\ Goto(t, "bucket")
        /\ UNCHANGED <<partial_hashes, size_used, size_limit, disk, dirs,
                       meta, last, inserted, before>>

\* put: self._partial_hashes.setdefault(partial_hash, []).append(final_hash)
PutBucket(t) ==
    LET call == threads[t].call
    IN  /\ At(t, "put", "bucket")
        /\ partial_hashes' = BucketAppend(partial_hashes, call.partial,
                                          call.hash)
        /\ Goto(t, "reserve")
        /\ UNCHANGED <<data, size_used, size_limit, disk, dirs, meta, last,
                       inserted, before>>

\* _reserve_space: the test of the while loop, and the raise
ReserveTest(t) ==
    /\ At(t, "put", "reserve")
    /\ IF ~NeedsSpace(TheCache, threads[t].size) THEN Goto(t, "mkdir")
       ELSE IF Len(data) = 0 THEN RaiseIn(t, "RuntimeError")
       ELSE Goto(t, "pop")
    /\ UNCHANGED <<cacheVars, before>>

\* _discard_one: final_hash, item = self._data.popitem(last=False)
DiscardPop(t) ==
    /\ At(t, "put", "pop")
    /\ IF Len(data) = 0
       THEN RaiseIn(t, "KeyError") /\ UNCHANGED data
       ELSE /\ data' = Tail(data)
            /\ threads' = [threads EXCEPT ![t].pc = "unbucket",
                                          ![t].item = Head(data)]
    /\ UNCHANGED <<partial_hashes, size_used, size_limit, disk, dirs, meta,
                   last, inserted, before>>

\* _discard_one: the removal from the bucket and the deletion of the bucket
\* that became empty
DiscardUnbucket(t) ==
    LET item == threads[t].item
    IN  /\ At(t, "put", "unbucket")
        /\ IF item.partial_hash \notin DOMAIN partial_hashes
           THEN RaiseIn(t, "KeyError") /\ UNCHANGED partial_hashes
           ELSE IF item.hash \notin SeqToSet(partial_hashes[item.partial_hash])
           THEN RaiseIn(t, "ValueError") /\ UNCHANGED partial_hashes
           ELSE /\ partial_hashes' = BucketRemove(partial_hashes,
                                                  item.partial_hash, item.hash)
                /\ Goto(t, "rmtree")
        /\ UNCHANGED <<data, size_used, size_limit, disk, dirs, meta, last,
                       inserted, before>>

\* _discard_one: shutil.rmtree(str(self.get_directory(final_hash)))
DiscardRmtree(t) ==
    LET item == threads[t].item
    IN  /\ At(t, "put", "rmtree")
        /\ IF item.hash \notin DOMAIN disk
           THEN RaiseIn(t, "FileNotFoundError") /\ UNCHANGED disk
           ELSE disk' = DictDel(disk, item.hash) /\ Goto(t, "sub")
        /\ UNCHANGED <<data, partial_hashes, size_used, size_limit, dirs,
                       meta, last, inserted, before>>

\* _discard_one: self.size_used -= item.size
DiscardSub(t) ==
    /\ At(t, "put", "sub")
    /\ size_used' = size_used - threads[t].item.size
    /\ Goto(t, "reserve")
    /\ UNCHANGED <<data, partial_hashes, size_limit, disk, dirs, meta, last,
                   inserted, before>>

\* put: assert not directory.exists(); directory.mkdir(parents=True)
PutMkdir(t) ==
    LET call == threads[t].call
    IN  /\ At(t, "put", "mkdir")
        /\ IF call.hash \in DOMAIN disk
           THEN RaiseIn(t, "AssertionError") /\ UNCHANGED <<disk, dirs>>
           ELSE /\ disk' = DictSet(disk, call.hash, <<>>)
                /\ dirs' = dirs \cup {HexPrefix(call.hash)}
                /\ Goto(t, "rename")
        /\ UNCHANGED <<data, partial_hashes, size_used, size_limit, meta,
                       last, inserted, before>>

\* put: the files are moved into the directory
PutRename(t) ==
    LET call == threads[t].call
    IN  /\ At(t, "put", "rename")
        /\ IF call.hash \notin DOMAIN disk
           THEN RaiseIn(t, "FileNotFoundError") /\ UNCHANGED disk
           ELSE disk' = DictSet(disk, call.hash, call.paths) /\ Goto(t, "add")
        /\ UNCHANGED <<data, partial_hashes, size_used, size_limit, dirs,
                       meta, last, inserted, before>>

\* put: self.size_used += size
PutAdd(t) ==
    /\ At(t, "put", "add")
    /\ size_used' = size_used + threads[t].size
    /\ Goto(t, "done")
    /\ UNCHANGED <<data, partial_hashes, size_limit, disk, dirs, meta, last,
                   inserted, before>>

\* accessed, without a switch to another thread
ThreadAccessed(t) ==
    LET r == Accessed(TheCache, threads[t].call.hash)
    IN  /\ At(t, "accessed", "start")
        /\ data' = r.data
        /\ threads' = [threads EXCEPT ![t].pc = "done", ![t].err = r.err]
        /\ UNCHANGED <<partial_hashes, size_used, size_limit, disk, dirs,
                       meta, last, inserted, before>>

\* get_candidate_implicit_dependencies, without a switch to another thread:
\* self._data[h] raises KeyError for a full hash that is in the bucket only
ThreadGet(t) ==
    LET partial == threads[t].call.partial
    IN  /\ At(t, "get", "start")
        /\ IF /\ partial \in DOMAIN partial_hashes
              /\ ~(SeqToSet(partial_hashes[partial]) \subseteq Keys(data))
           THEN RaiseIn(t, "KeyError")
           ELSE threads' =
                  [threads EXCEPT
                     ![t].pc = "done",
                     ![t].ret = GetCandidateImplicitDependencies(TheCache,
                                                                 partial)]
        /\ UNCHANGED <<cacheVars, before>>

\* what the call gives when no other thread runs: the cache after it, the
\* exception raised and the value returned
Alone(c, call) ==
    IF call.op = "put"
    THEN LET r == Put(c, call.hash, call.partial, call.paths,
                      DepsOf(call.hash))
         IN  [cache |-> r, err |-> r.err, ret |-> <<>>]
    ELSE IF call.op = "accessed"
    THEN LET r == Accessed(c, call.hash)
         IN  [cache |-> r, err |-> r.err, ret |-> <<>>]
    ELSE [cache |-> c, err |-> "none",
          ret |-> GetCandidateImplicitDependencies(c, call.partial)]

InitThreads ==
    /\ NoApplication
    /\ NoTraversal
    /\ InitGraph
    /\ NoChannel /\ NoHashing /\ NoService /\ NoEngine
    /\ data = SharedCache.data
    /\ partial_hashes = SharedCache.ph
    /\ size_used = SharedCache.used
    /\ size_limit = SharedCache.limit
    /\ disk = SharedCache.disk
    /\ dirs = SharedCache.dirs
    /\ meta = SharedCache.meta
    /\ inserted = <<>>
    /\ last = NoCall
    /\ threads \in [Threads -> {NewThread(call) : call \in ThreadCalls}]
    /\ before = SharedCache

NextThreads ==
    \E t \in Threads :
        \/ PutAssert(t) /\ UNCHANGED <<appVars, travVars, graphVars,
                                       channelVars, hashVars, serviceVars, engineVars>>
        \/ PutInsert(t) /\ UNCHANGED <<appVars, travVars, graphVars,
                                       channelVars, hashVars, serviceVars, engineVars>>
        \/ PutBucket(t) /\ UNCHANGED <<appVars, travVars, graphVars,
                                       channelVars, hashVars, serviceVars, engineVars>>
        \/ ReserveTest(t) /\ UNCHANGED <<appVars, travVars, graphVars,
                                       channelVars, hashVars, serviceVars, engineVars>>
        \/ DiscardPop(t) /\ UNCHANGED <<appVars, travVars, graphVars,
                                       channelVars, hashVars, serviceVars, engineVars>>
        \/ DiscardUnbucket(t) /\ UNCHANGED <<appVars, travVars, graphVars,
                                       channelVars, hashVars, serviceVars, engineVars>>
        \/ DiscardRmtree(t) /\ UNCHANGED <<appVars, travVars, graphVars,
                                       channelVars, hashVars, serviceVars, engineVars>>
        \/ DiscardSub(t) /\ UNCHANGED <<appVars, travVars, graphVars,
                                       channelVars, hashVars, serviceVars, engineVars>>
        \/ PutMkdir(t) /\ UNCHANGED <<appVars, travVars, graphVars,
                                       channelVars, hashVars, serviceVars, engineVars>>
        \/ PutRename(t) /\ UNCHANGED <<appVars, travVars, graphVars,
                                       channelVars, hashVars, serviceVars, engineVars>>
        \/ PutAdd(t) /\ UNCHANGED <<appVars, travVars, graphVars,
                                       channelVars, hashVars, serviceVars, engineVars>>
        \/ ThreadAccessed(t) /\ UNCHANGED <<appVars, travVars, graphVars,
                                       channelVars, hashVars, serviceVars, engineVars>>
        \/ ThreadGet(t) /\ UNCHANGED <<appVars, travVars, graphVars,
                                       channelVars, hashVars, serviceVars, engineVars>>

SpecThreads == InitThreads /\ [][NextThreads]_vars

\* every thread has returned from its call or raised
AllDone == threads # <<>> /\ \A t \in Threads : threads[t].pc = "done"

\* the cache and what the threads got are what the calls give when t1 runs
\* its call to the end before t2 begins
InOrder(t1, t2) ==
    LET r1 == Alone(before, threads[t1].call)
        r2 == Alone(r1.cache, threads[t2].call)
    IN  /\ data = r2.cache.data
        /\ partial_hashes = r2.cache.ph
        /\ size_used = r2.cache.used
        /\ disk = r2.cache.disk
        /\ threads[t1].err = r1.err /\ threads[t1].ret = r1.ret
        /\ threads[t2].err = r2.err /\ threads[t2].ret = r2.ret

\* C23: when worker threads call put, accessed and
\* get_candidate_implicit_dependencies at the same time, the state after the
\* calls is the state some sequential order of the calls produces, and the
\* indices agree, size_used is the size on disk and size_used <= size_limit.
C23_ConcurrentCallsAreSerializable ==
    AllDone =>
        /\ InOrder("t1", "t2") \/ InOrder("t2", "t1")
        /\ C2_IndicesConsistent
        /\ C3_SizeUsedIsDiskSize
        /\ size_used <= size_limit

\* ------------------------------------------------------------------
\* bs/backend.py: Backend.update and the progress messages of a Context.
\* The Context that Backend.update builds takes the backend, the selected
\* targets and the output directory and has log, stop_flag, exception and
\* iterate_log_messages; bs/context.py has no such class, so the queue of
\* messages with its finished and exception marks follows the design text
\* of the progress channel.  The producers are the code of backend.py.
\* ------------------------------------------------------------------

\* a cache just constructed, with no call made
NoCache ==
    /\ data = EmptyCache.data
    /\ partial_hashes = EmptyCache.ph
    /\ size_used = EmptyCache.used
    /\ size_limit = EmptyCache.limit
    /\ disk = EmptyCache.disk
    /\ dirs = EmptyCache.dirs
    /\ meta = EmptyCache.meta
    /\ inserted = <<>>
    /\ last = NoCall

\* str(node) of the nodes that wait in a target
UpdateNodes == {"s1", "s2", "s3"}

\* the targets a client may select
MaxTargets == 2

\* _TargetData.waiting_nodes of a fresh target: its nodes without
\* dependencies, of which every target has at least one
WaitingNodes == SUBSET UpdateNodes \ {{}}

\* the arguments of Backend.update: target_names is None or a list
TargetNames == {"None", "list"}

\* Context(backend, selected_targets, output_directory): an empty queue,
\* nothing finished, no exception recorded, stop_flag clear
NewContext ==
    [queue |-> <<>>, finished |-> FALSE, exception |-> "none",
     stop_flag |-> FALSE]

\* Context.log(message): the message goes to the end of the queue
Log(c, message) == [c EXCEPT !.queue = Append(@, message)]

\* a call of Backend.update that has not started
NewUpdate(target_names, selected) ==
    [target_names |-> target_names, selected |-> selected,
     pc |-> "select", err |-> "none", context |-> NewContext,
     todo |-> <<>>, nodes |-> {}, pushed |-> <<>>, delivered |-> <<>>,
     consumer |-> "none"]

\* lines 171-177: target_names None selects every target; otherwise the
\* generator expression evaluates the misspelt name available_targes
UpdateSelect ==
    /\ channel.pc = "select"
    /\ channel' =
         IF channel.target_names = "None"
         THEN [channel EXCEPT !.pc = "context"]
         ELSE [channel EXCEPT !.pc = "raised", !.err = "NameError"]

\* line 182: c = context.Context(self, selected_targets, output_directory)
UpdateContext ==
    /\ channel.pc = "context"
    /\ channel' = [channel EXCEPT !.pc = "targets",
                                  !.context = NewContext,
                                  !.todo = channel.selected]

\* _TargetData.submit_waiting_jobs up to its loop: one message with the
\* number of waiting nodes
SubmitWaitingJobs ==
    /\ channel.pc = "targets"
    /\ channel.todo # <<>>
    /\ LET message == <<"Submiting", Cardinality(Head(channel.todo))>>
       IN channel' = [channel EXCEPT
                          !.pc = "jobs",
                          !.nodes = Head(channel.todo),
                          !.todo = Tail(@),
                          !.context = Log(@, message),
                          !.pushed = Append(@, message)]

\* _node_job(node, context), called by submit_waiting_jobs itself in
\* executor.submit(_node_job(node, context)): the node's name is logged;
\* with stop_flag set the job returns; otherwise `with
\* context.backend._lock` and `self._set_node_clean` raise inside the try,
\* and the handler `c.exception(e)` raises NameError for the name c, which
\* leaves _node_job, submit_waiting_jobs and Backend.update
NodeJob(node) ==
    /\ channel.pc = "jobs"
    /\ node \in channel.nodes
    /\ LET logged == [channel EXCEPT
                          !.context = Log(@, node),
                          !.pushed = Append(@, node),
                          !.nodes = @ \ {node}]
       IN channel' =
            IF logged.context.stop_flag
            THEN [logged EXCEPT
                      !.pc = IF logged.nodes = {} THEN "targets" ELSE "jobs"]
            ELSE [logged EXCEPT !.pc = "raised", !.err = "NameError"]

\* lines 188-190: c.log("X") and the iterator over the messages is returned
UpdateReturn ==
    /\ channel.pc = "targets"
    /\ channel.todo = <<>>
    /\ channel' = [channel EXCEPT
                       !.pc = "returned",
                       !.context = Log(@, "X"),
                       !.pushed = Append(@, "X"),
                       !.consumer = "iterating"]

\* one next() on the iterator of Context.iterate_log_messages: the oldest
\* message; with the queue empty and finished set the iteration ends, with
\* the recorded exception if there is one; otherwise the consumer waits
ConsumerNext ==
    /\ channel.consumer = "iterating"
    /\ LET c == channel.context
       IN /\ ~(c.queue = <<>> /\ ~c.finished)
          /\ channel' =
               IF c.queue # <<>>
               THEN [channel EXCEPT
                         !.delivered = Append(@, Head(c.queue)),
                         !.context.queue = Tail(@)]
               ELSE [channel EXCEPT
                         !.consumer = IF c.exception = "none"
                                      THEN "ended" ELSE "raised"]

\* the lists of waiting-node sets of up to MaxTargets selected targets
SelectedTargets ==
    UNION {[1..n -> WaitingNodes] : n \in 0..MaxTargets}

InitChannel ==
    /\ NoCache
    /\ NoApplication
    /\ NoTraversal
    /\ InitGraph
    /\ NoThreads /\ NoHashing /\ NoService /\ NoEngine
    /\ \E target_names \in TargetNames, selected \in SelectedTargets :
           channel = NewUpdate(target_names, selected)

NextChannel ==
    \/ UpdateSelect /\ UNCHANGED <<cacheVars, appVars, travVars,
                                   graphVars, threadVars, hashVars,
                                   serviceVars, engineVars>>
    \/ UpdateContext /\ UNCHANGED <<cacheVars, appVars, travVars,
                                   graphVars, threadVars, hashVars,
                                   serviceVars, engineVars>>
    \/ SubmitWaitingJobs /\ UNCHANGED <<cacheVars, appVars, travVars,
                                   graphVars, threadVars, hashVars,
                                   serviceVars, engineVars>>
    \/ (\E node \in UpdateNodes : NodeJob(node)) /\ UNCHANGED <<cacheVars, appVars, travVars,
                                   graphVars, threadVars, hashVars,
                                   serviceVars, engineVars>>
    \/ UpdateReturn /\ UNCHANGED <<cacheVars, appVars, travVars,
                                   graphVars, threadVars, hashVars,
                                   serviceVars, engineVars>>
    \/ ConsumerNext /\ UNCHANGED <<cacheVars, appVars, travVars,
                                   graphVars, threadVars, hashVars,
                                   serviceVars, engineVars>>

\* every step of the call and of its consumer is taken when it can be
SpecChannel == InitChannel /\ [][NextChannel]_vars /\ WF_vars(NextChannel)

\* s is the beginning of t
IsPrefix(s, t) == Len(s) <= Len(t) /\ s = SubSeq(t, 1, Len(s))

\* C24: the consumer of Backend.update receives the messages in the order
\* in which they were logged and receives every one of them; its iteration
\* ends only with finished set and the queue empty, and an exception
\* reaches it only if it was recorded and every message logged before has
\* been delivered.
C24_MessagesReachConsumerInOrder ==
    /\ [](/\ IsPrefix(channel.delivered, channel.pushed)
          /\ channel.consumer \in {"ended", "raised"} =>
                 /\ channel.context.finished
                 /\ channel.delivered = channel.pushed
          /\ channel.consumer = "raised" =>
                 channel.context.exception # "none")
    /\ \A n \in 1..(2 + 2 * MaxTargets) :
           (Len(channel.pushed) >= n) ~> (Len(channel.delivered) >= n)

\* ------------------------------------------------------------------
\* bs/util.py: sha1_iterable.  An element is bytes or text; bytes are a
\* sequence of byte values and text a sequence of code points.  The
\* digest is a function of the bytes fed to the hasher and of nothing
\* else, so it is kept as the stream that was fed.
\* ------------------------------------------------------------------

\* the byte values of a bytes element: the null byte and the letter a
ByteValues == {0, 97}

\* the longest bytes element
MaxBytes == 1

\* the elements of both iterables together
MaxItems == 3

\* the text elements: "" and "a"
Texts == {<<>>, <<97>>}

\* the elements an iterable may hold
Items ==
    {[type |-> "bytes", value |-> v] :
         v \in UNION {[1..n -> ByteValues] : n \in 0..MaxBytes}}
    \cup {[type |-> "str", value |-> v] : v \in Texts}

\* repr(item).encode("utf8") of a text of plain letters: the letters
\* between two single quotes (code 39)
Repr(item) == <<39>> \o item.value \o <<39>>

\* lines 23-27: hasher.update(item) takes bytes as they are and raises
\* TypeError for anything else, which is then fed as its repr; a null byte
\* follows
Update(hasher, item) ==
    LET bytes == IF item.type = "bytes" THEN item.value ELSE Repr(item)
    IN hasher \o bytes \o <<0>>

RECURSIVE UpdateAll(_, _)
\* line 22: for item in iterable
UpdateAll(hasher, iterable) ==
    IF iterable = <<>> THEN hasher
    ELSE UpdateAll(Update(hasher, Head(iterable)), Tail(iterable))

RECURSIVE UpdateIterables(_, _)
\* line 21: for iterable in iterables
UpdateIterables(hasher, iterables) ==
    IF iterables = <<>> THEN hasher
    ELSE UpdateIterables(UpdateAll(hasher, Head(iterables)),
                         Tail(iterables))

\* hasher.digest(): decided by the bytes fed
Digest(hasher) == [sha1 |-> hasher]

\* only the first of the iterables is hashed
sha1_first_iterable(iterables) == Digest(UpdateAll(<<>>, Head(iterables)))

\* sha1_iterable(*iterables)
sha1_iterable(iterables) == Digest(UpdateIterables(<<>>, iterables))

\* the iterables of at most n elements
Iterables(n) == UNION {[1..k -> Items] : k \in 0..n}

\* two iterables, no call made yet
NewHashing(A, B) ==
    [A |-> A, B |-> B, pc |-> "both", both |-> "none", joined |-> "none",
     first |-> "none", second |-> "none"]

\* sha1_iterable(A, B)
HashBoth ==
    /\ hashed.pc = "both"
    /\ hashed' = [hashed EXCEPT
                      !.both = sha1_iterable(<<hashed.A, hashed.B>>),
                      !.pc = "joined"]

\* sha1_iterable(A + B)
HashJoined ==
    /\ hashed.pc = "joined"
    /\ hashed' = [hashed EXCEPT
                      !.joined = sha1_iterable(<<hashed.A \o hashed.B>>),
                      !.pc = "first"]

\* sha1_iterable(A)
HashFirst ==
    /\ hashed.pc = "first"
    /\ hashed' = [hashed EXCEPT
                      !.first = sha1_iterable(<<hashed.A>>),
                      !.pc = "second"]

\* sha1_iterable(B)
HashSecond ==
    /\ hashed.pc = "second"
    /\ hashed' = [hashed EXCEPT
                      !.second = sha1_iterable(<<hashed.B>>),
                      !.pc = "done"]

InitHash ==
    /\ NoCache
    /\ NoApplication
    /\ NoTraversal
    /\ InitGraph
    /\ NoThreads /\ NoChannel /\ NoService /\ NoEngine
    /\ \E A \in Iterables(MaxItems), B \in Iterables(MaxItems) :
           /\ Len(A) + Len(B) <= MaxItems
           /\ hashed = NewHashing(A, B)

NextHash ==
    \/ HashBoth /\ UNCHANGED <<cacheVars, appVars, travVars, graphVars,
                               threadVars, channelVars, serviceVars, engineVars>>
    \/ HashJoined /\ UNCHANGED <<cacheVars, appVars, travVars, graphVars,
                                 threadVars, channelVars, serviceVars, engineVars>>
    \/ HashFirst /\ UNCHANGED <<cacheVars, appVars, travVars, graphVars,
                                threadVars, channelVars, serviceVars, engineVars>>
    \/ HashSecond /\ UNCHANGED <<cacheVars, appVars, travVars, graphVars,
                                 threadVars, channelVars, serviceVars, engineVars>>

SpecHash == InitHash /\ [][NextHash]_vars

\* C25: the hash of two iterables is the hash of their concatenation.
C25_HashOfIterablesIsHashOfConcatenation ==
    hashed.pc \in {"first", "second", "done"} =>
        hashed.both = hashed.joined

\* both calls made on two non-empty iterables, a text and a bytes element
\* among them
C25_Witness ==
    /\ hashed.pc = "done"
    /\ hashed.A # <<>>
    /\ hashed.B # <<>>
    /\ hashed.both = hashed.joined
    /\ \E i \in 1..Len(hashed.A) : hashed.A[i].type = "str"
    /\ \E i \in 1..Len(hashed.B) : hashed.B[i].type = "bytes"

\* C26: two different sequences of elements never feed the same bytes to
\* the hasher, so they never have the same hash.
C26_DifferentSequencesDifferentStreams ==
    (hashed.pc = "done" /\ hashed.A # hashed.B) =>
        hashed.first # hashed.second

\* ------------------------------------------------------------------
\* bs/service.py: services started through ServiceProxy on one control
\* file, with the classes of tests/service_test.py: S (timeout far away),
\* T (short timeout, __exit__ suppresses TimeoutError) and U (as T, its
\* _connection_class raises).  A port is the number of the instance that
\* listens on it.  Proxies are made with force_restart False.
\* ------------------------------------------------------------------

\* the clients
Proxies == {"a", "b"}

\* the service processes that may be started
MaxInstances == 2

\* the arguments of set_value
Values == {1, 2}

\* T._timeout in ticks of the clock
Timeout == 2

\* the last tick of the clock
MaxTime == 4

\* the values the generator of S.iterate yields (range(10) in the test)
IterLen == 2

\* the IteratorWrappers a connection may get
MaxIterators == 1

\* cls._timeout: S times out far beyond the clock
TimeoutOf(cls) == IF cls = "S" THEN MaxTime + 1 ELSE Timeout

\* the result of a call as the client gets it: a value or an exception
Result(value) == [raised |-> "none", value |-> value]

Exception(exception) == [raised |-> exception, value |-> 0]

\* a ServiceProxy just constructed; name and result are history: the last
\* call and its result; nexts is history too: for every IteratorWrapper
\* received, the number of next() calls made on it
NewProxy ==
    [pc |-> "new", instance |-> 0, name |-> "none", result |-> Result(0),
     nexts |-> <<>>]

\* _run up to serve_forever: cls(control_file), the server socket,
\* _last_call_time = time.time()
NewInstance(cls, now) ==
    [cls |-> cls, state |-> "serving", value |-> 0, connections |-> {},
     connection |-> {}, last_call_time |-> now, arrival |-> now,
     exit_exc |-> "none", ended |-> 0, spinning |-> {},
     iterators |-> [p \in Proxies |-> <<>>]]

\* no control file, no process, two proxies constructed
NewService ==
    [file |-> 0, instances |-> <<>>, now |-> 0,
     proxies |-> [p \in Proxies |-> NewProxy]]

\* the instances whose process has not ended
Alive(svc) ==
    {i \in 1..Len(svc.instances) : svc.instances[i].state # "exited"}

\* _try_connect_once: the port read from the control file, if the file is
\* there and the connection is not refused; 0 otherwise
TryConnectOnce(svc) == IF svc.file \in Alive(svc) THEN svc.file ELSE 0

\* ServiceProxy.__enter__, lines 88-97: _try_connect(0.5); connected, or
\* a service has to be started
TryConnect(svc, p) ==
    LET port == TryConnectOnce(svc)
    IN [svc EXCEPT !.proxies[p].pc = IF port = 0 THEN "start"
                                     ELSE "connected",
                   !.proxies[p].instance = port]

\* lines 101-105 and _run lines 278-293: the process is started, the
\* control file is opened for writing and gets the port of the new
\* server, the instance is entered and serves
Run(svc, p, cls) ==
    [svc EXCEPT !.instances = Append(@, NewInstance(cls, svc.now)),
                !.file = Len(svc.instances) + 1,
                !.proxies[p].pc = "started"]

\* lines 106-113: _try_connect(1.5) and "Failed to start the service"
ConnectStarted(svc, p) ==
    LET port == TryConnectOnce(svc)
    IN [svc EXCEPT !.proxies[p].pc = IF port = 0 THEN "failed"
                                     ELSE "connected",
                   !.proxies[p].instance = port]

\* Service._stop: a thread that calls _server.shutdown is started
Stop(instance) == [instance EXCEPT !.state = "stopping"]

\* the generator of S.iterate resumed for the n-th time: it adds one to
\* _value when it is resumed after a yield, and yields _value while fewer
\* than IterLen values were yielded
Resume(instance, n) ==
    LET value == IF n = 1 \/ n > IterLen + 1 THEN instance.value
                 ELSE instance.value + 1
    IN [instance |-> [instance EXCEPT !.value = value],
        result |-> IF n <= IterLen THEN Result(value)
                   ELSE Exception("StopIteration")]

\* the iterator is advanced twice for one call
NextTwice(instance, p, it) ==
    LET n == instance.iterators[p][it] + 1
        once == Resume(instance, n)
        twice == Resume(once.instance, n + 1)
    IN [instance |-> [twice.instance EXCEPT !.iterators[p][it] = n + 1],
        result |-> twice.result]

\* handle, line 245: result = next(iterators[func_name])
Next(instance, p, it) ==
    LET n == instance.iterators[p][it] + 1
        resumed == Resume(instance, n)
    IN [instance |->
            [resumed.instance EXCEPT
                 !.iterators[p][it] =
                     IF n > IterLen + 1 THEN IterLen + 1 ELSE n],
        result |-> resumed.result]

\* handle, lines 247-253: the method of the instance is called; an
\* IteratorWrapper returned is kept in the iterators of the connection and
\* its number goes to the client
Method(instance, p, call) ==
    CASE call.name = "set_value" ->
             [instance |-> [instance EXCEPT !.value = call.arg],
              result |-> Result(0)]
      [] call.name = "get_value" ->
             [instance |-> instance, result |-> Result(instance.value)]
      [] call.name = "get_connections" ->
             [instance |-> instance,
              result |-> Result(Cardinality(instance.connections))]
      [] call.name \in {"exit", "_stop"} ->
             [instance |-> Stop(instance), result |-> Result(0)]
      [] call.name = "iterate" ->
             [instance |-> [instance EXCEPT !.iterators[p] = Append(@, 0)],
              result |-> Result(Len(instance.iterators[p]) + 1)]

\* handle, lines 227-237: on the first call of a connection the
\* connection object is made and entered; the class of U raises instead
Connection(instance, p) ==
    IF p \in instance.connection
    THEN [instance |-> instance, raised |-> "none"]
    ELSE IF instance.cls = "U"
    THEN [instance |-> instance, raised |-> "FunkyException"]
    ELSE [instance |-> [instance EXCEPT !.connection = @ \cup {p},
                                        !.connections = @ \cup {p}],
          raised |-> "none"]

\* one round of the loop of handle with a call read from the connection,
\* under the lock of the instance
Handle(instance, p, call, now) ==
    LET \* history: the time at which the last call arrived
        arrived == [instance EXCEPT !.arrival = now]
        made == Connection(arrived, p)
        timed == [made.instance EXCEPT !.last_call_time = now]
    IN IF made.raised # "none"
       THEN [instance |-> made.instance, result |-> Exception(made.raised)]
       ELSE IF call.name = "next"
       THEN Next(timed, p, call.arg)
       ELSE Method(timed, p, call)

\* ServiceProxy._call: the call is sent and the answer read; with the
\* process gone the read ends with EOFError
Call(svc, p, call) ==
    LET i == svc.proxies[p].instance
        handled == Handle(svc.instances[i], p, call, svc.now)
        result == IF i \in Alive(svc) THEN handled.result
                  ELSE Exception("EOFError")
        nexts == svc.proxies[p].nexts
    IN [svc EXCEPT !.instances[i] = IF i \in Alive(svc)
                                    THEN handled.instance ELSE @,
                   !.proxies[p].name = call.name,
                   !.proxies[p].result = result,
                   !.proxies[p].nexts =
                       IF call.name = "iterate" /\ result.raised = "none"
                       THEN Append(nexts, 0)
                       ELSE IF call.name = "next"
                       THEN [nexts EXCEPT ![call.arg] = @ + 1]
                       ELSE nexts]

\* ServiceProxy.__exit__ and what handle does with it: the socket is
\* closed, pickle.load raises EOFError in the handler, the bare except
\* sends the exception and the loop goes on reading the closed connection;
\* the with block of the handler is never left
Close(svc, p) ==
    LET i == svc.proxies[p].instance
    IN [svc EXCEPT !.proxies[p].pc = "closed",
                   !.instances[i].spinning =
                       IF i \in Alive(svc) THEN @ \cup {p} ELSE @]

\* _run, lines 292-299, for an exception ex (or "None") that ends
\* serve_forever: the instance is exited with it, the control file is
\* unlinked and the process ends; ended is history, the time of it
EndRun(svc, i, ex) ==
    [svc EXCEPT !.instances[i].state = "exited",
                !.instances[i].exit_exc = ex,
                !.instances[i].ended = svc.now,
                !.file = 0]

\* the calls of basic_test and client_class_test
ServiceCalls ==
    {[name |-> "set_value", arg |-> v] : v \in Values}
    \cup {[name |-> n, arg |-> 0] :
              n \in {"get_value", "get_connections", "exit"}}

ProxyTryConnect(p) ==
    /\ service.proxies[p].pc = "new"
    /\ service' = TryConnect(service, p)

ProxyRun(p) ==
    /\ service.proxies[p].pc = "start"
    /\ Len(service.instances) < MaxInstances
    /\ service' = Run(service, p, "S")

ProxyConnectStarted(p) ==
    /\ service.proxies[p].pc = "started"
    /\ service' = ConnectStarted(service, p)

ProxyCall(p) ==
    /\ service.proxies[p].pc = "connected"
    /\ \E call \in ServiceCalls : service' = Call(service, p, call)

ProxyClose(p) ==
    /\ service.proxies[p].pc = "connected"
    /\ service' = Close(service, p)

\* the shutdown asked for by _stop ends serve_forever without an exception
ServeForeverReturns(i) ==
    /\ i \in 1..Len(service.instances)
    /\ service.instances[i].state = "stopping"
    /\ service' = EndRun(service, i, "None")

\* everything but the service
noService ==
    <<cacheVars, appVars, travVars, graphVars, threadVars, channelVars,
      hashVars, engineVars>>

InitService ==
    /\ NoCache
    /\ NoApplication
    /\ NoTraversal
    /\ InitGraph
    /\ NoThreads /\ NoChannel /\ NoHashing /\ NoEngine
    /\ service = NewService

NextService ==
    \/ \E p \in Proxies : ProxyTryConnect(p) /\ UNCHANGED noService
    \/ \E p \in Proxies : ProxyRun(p) /\ UNCHANGED noService
    \/ \E p \in Proxies : ProxyConnectStarted(p) /\ UNCHANGED noService
    \/ \E p \in Proxies : ProxyCall(p) /\ UNCHANGED noService
    \/ \E p \in Proxies : ProxyClose(p) /\ UNCHANGED noService
    \/ \E i \in 1..MaxInstances :
           ServeForeverReturns(i) /\ UNCHANGED noService

\* the processes run on, and the thread started by _stop ends the loop
SpecService ==
    /\ InitService
    /\ [][NextService]_vars
    /\ WF_vars(NextService)
    /\ \A i \in 1..MaxInstances :
           WF_vars(ServeForeverReturns(i) /\ UNCHANGED noService)

\* the proxies connected to an instance whose process has not ended
Reaching(svc) ==
    {p \in Proxies : /\ svc.proxies[p].pc = "connected"
                     /\ svc.proxies[p].instance \in Alive(svc)}

\* the state of the i-th process started, "none" before it is started
StateOf(svc, i) ==
    IF i \in 1..Len(svc.instances) THEN svc.instances[i].state ELSE "none"

\* C27: the proxies opened on the control file reach one and the same
\* running instance; once _stop was asked for, the instance leaves its
\* loop and ends with the control file removed, and a call through a proxy
\* of an instance that has ended fails.
C27_OneInstancePerControlFileStopsCleanly ==
    /\ [](\A p \in Reaching(service), q \in Reaching(service) :
              service.proxies[p].instance = service.proxies[q].instance)
    /\ \A i \in 1..MaxInstances :
           (StateOf(service, i) = "stopping")
           ~> (StateOf(service, i) = "exited" /\ service.file # i)
    /\ [][\A p \in Proxies :
              (/\ service.proxies[p].pc = "connected"
               /\ service.proxies[p].instance \notin Alive(service)
               /\ service'.proxies[p] # service.proxies[p]
               /\ service'.proxies[p].pc = "connected")
              => service'.proxies[p].result.raised # "none"]_vars

\* C30: a connection object is entered for a connection that has made a
\* call, and once the client has closed its proxy the object is exited:
\* it leaves the entered objects of the running instance.
C30_ConnectionObjectExitedWhenConnectionEnds ==
    /\ [](\A i \in Alive(service) :
              \A p \in service.instances[i].connections :
                  /\ service.proxies[p].instance = i
                  /\ service.proxies[p].name # "none")
    /\ \A p \in Proxies :
           (service.proxies[p].pc = "closed")
           ~> (\A i \in Alive(service) :
                   p \notin service.instances[i].connections)

\* ------------------------------------------------------------------
\* bs/service.py: the idle timeout.  One service of class T or U, started
\* by proxy a; the clock ticks, both proxies call, the server loop polls.
\* ------------------------------------------------------------------

\* ServiceProxy(cls, control_file).__enter__ with no service running
ProxyEntered(svc, p, cls) == ConnectStarted(Run(TryConnect(svc, p), p, cls), p)

\* time.time() moves on
Tick ==
    /\ service.now < MaxTime
    /\ service' = [service EXCEPT !.now = @ + 1]

\* some proxy calls get_value
TimeoutCall(p) ==
    /\ service.proxies[p].pc = "connected"
    /\ service' = Call(service, p, [name |-> "get_value", arg |-> 0])

\* the time is still within _last_call_time + _timeout
MayRun(instance, now) ==
    now <= instance.last_call_time + TimeoutOf(instance.cls)

\* _PickleRPCServer.service_actions when it raises: TimeoutError leaves
\* serve_forever and ends the run
ServiceActions(i) ==
    /\ i \in Alive(service)
    /\ ~MayRun(service.instances[i], service.now)
    /\ service' = EndRun(service, i, "TimeoutError")

InitTimeout ==
    /\ NoCache
    /\ NoApplication
    /\ NoTraversal
    /\ InitGraph
    /\ NoThreads /\ NoChannel /\ NoHashing /\ NoEngine
    /\ \E cls \in {"T", "U"} : service = ProxyEntered(NewService, "a", cls)

NextTimeout ==
    \/ Tick /\ UNCHANGED noService
    \/ \E p \in Proxies : ProxyTryConnect(p) /\ UNCHANGED noService
    \/ \E p \in Proxies : TimeoutCall(p) /\ UNCHANGED noService
    \/ \E i \in 1..MaxInstances : ServiceActions(i) /\ UNCHANGED noService

\* the server loop polls as long as it runs
SpecTimeout ==
    /\ InitTimeout
    /\ [][NextTimeout]_vars
    /\ \A i \in 1..MaxInstances :
           WF_vars(ServiceActions(i) /\ UNCHANGED noService)

\* no call has arrived at instance i for more than its _timeout
Idle(svc, i) ==
    /\ i \in Alive(svc)
    /\ svc.now - svc.instances[i].arrival > TimeoutOf(svc.instances[i].cls)

\* instance i has ended with TimeoutError
TimedOut(svc, i) ==
    /\ i \in 1..Len(svc.instances)
    /\ svc.instances[i].state = "exited"
    /\ svc.instances[i].exit_exc = "TimeoutError"

\* C28: a service that has had no call for more than _timeout ends, its
\* __exit__ gets TimeoutError, the control file is removed and later calls
\* fail; a service ends in this way only when no call has arrived for more
\* than _timeout.
C28_IdleTimeout ==
    /\ \A i \in 1..MaxInstances :
           Idle(service, i) ~> (TimedOut(service, i) \/ ~Idle(service, i))
    /\ [](\A i \in 1..MaxInstances :
              TimedOut(service, i) =>
                  /\ service.file # i
                  /\ service.instances[i].ended - service.instances[i].arrival
                         > TimeoutOf(service.instances[i].cls))
    /\ [][\A p \in Proxies :
              (/\ service.proxies[p].pc = "connected"
               /\ TimedOut(service, service.proxies[p].instance)
               /\ service'.proxies[p] # service.proxies[p])
              => service'.proxies[p].result.raised = "EOFError"]_vars

\* ------------------------------------------------------------------
\* bs/service.py: IteratorWrapper.  One service of class S started by
\* proxy a; the proxies call iterate, next on the wrappers they hold, and
\* set_value.
\* ------------------------------------------------------------------

\* the next() calls made on one wrapper
MaxNexts == IterLen + 2

\* s.iterate()
Iterate(p) ==
    /\ service.proxies[p].pc = "connected"
    /\ Len(service.proxies[p].nexts) < MaxIterators
    /\ service' = Call(service, p, [name |-> "iterate", arg |-> 0])

\* next(iterator): IteratorWrapper.__next__ calls the proxy with the
\* number of the iterator as the name
IteratorNext(p) ==
    /\ service.proxies[p].pc = "connected"
    /\ \E it \in 1..Len(service.proxies[p].nexts) :
           /\ service.proxies[p].nexts[it] < MaxNexts
           /\ service' = Call(service, p, [name |-> "next", arg |-> it])

\* s.set_value(v)
SetValue(p) ==
    /\ service.proxies[p].pc = "connected"
    /\ \E v \in Values :
           service' = Call(service, p, [name |-> "set_value", arg |-> v])

InitIterator ==
    /\ NoCache
    /\ NoApplication
    /\ NoTraversal
    /\ InitGraph
    /\ NoThreads /\ NoChannel /\ NoHashing /\ NoEngine
    /\ service = ProxyEntered(NewService, "a", "S")

NextIterator ==
    \/ \E p \in Proxies : ProxyTryConnect(p) /\ UNCHANGED noService
    \/ \E p \in Proxies : Iterate(p) /\ UNCHANGED noService
    \/ \E p \in Proxies : IteratorNext(p) /\ UNCHANGED noService
    \/ \E p \in Proxies : SetValue(p) /\ UNCHANGED noService

SpecIterator == InitIterator /\ [][NextIterator]_vars

\* the step is a next() of proxy p on its wrapper it
IsNext(p, it) ==
    /\ it \in 1..Len(service.proxies[p].nexts)
    /\ Len(service'.proxies[p].nexts) = Len(service.proxies[p].nexts)
    /\ service'.proxies[p].nexts[it] = service.proxies[p].nexts[it] + 1

\* C29: the server-side iterator of a wrapper has been advanced once for
\* every next() of the client, up to its end; the n-th next() returns the
\* value the generator yields at its n-th step (the _value of the service,
\* one more than before except at the first step); from step IterLen + 1
\* on every next() raises StopIteration, and from step IterLen + 2 on it
\* leaves the service as it was.
C29_IteratorAdvancesOncePerNext ==
    [][\A p \in Proxies : \A it \in 1..MaxIterators :
           IsNext(p, it) =>
               LET i == service.proxies[p].instance
                   n == service'.proxies[p].nexts[it]
                   result == service'.proxies[p].result
                   value == service.instances[i].value
               IN /\ service'.instances[i].iterators[p][it]
                         = IF n <= IterLen THEN n ELSE IterLen + 1
                  /\ n <= IterLen =>
                         /\ result.raised = "none"
                         /\ result.value = IF n = 1 THEN value ELSE value + 1
                         /\ service'.instances[i].value = result.value
                  /\ n > IterLen => result.raised = "StopIteration"
                  /\ n > IterLen + 1 =>
                         /\ service'.instances[i].value = value
                         /\ service'.instances[i].iterators
                                = service.instances[i].iterators]_vars

\* a wrapper was iterated to its end and next() called once more, while
\* the other proxy holds a wrapper of its own
C29_Witness ==
    \E p \in Proxies : \E q \in Proxies \ {p} :
        /\ service.proxies[p].nexts = <<IterLen + 2>>
        /\ service.proxies[p].name = "next"
        /\ service.proxies[p].result.raised = "StopIteration"
        /\ service.instances[service.proxies[p].instance].iterators[p]
               = <<IterLen + 1>>
        /\ service.instances[service.proxies[p].instance].value >= IterLen
        /\ service.proxies[q].nexts # <<>>

-----------------------------------------------------------------------------
(* bs/nodes.py Application.update and the LRU order of the cache            *)

\* the update that returned last found its outputs in the cache (the hit
\* path: _find_cached_implicit_dependencies returned True)
HitCompleted == last.op = "update" /\ last.found # 0 /\ last.err = "none"

\* C32: after an update that was a cache hit, the entry of the
\* Application's full fingerprint is the most recently used entry of the
\* cache (cache.accessed was called with get_hash()), so it is discarded
\* only after every entry not used since.
C32_HitBecomesMostRecentlyUsed ==
    HitCompleted =>
        /\ GetHash \in Keys(data)
        /\ data[Len(data)].hash = GetHash

\* the forward dependencies an Application is meant to have: the builder,
\* the inputs and the implicit dependencies it holds now
ExpectedDependencies ==
    {"builder"} \cup SeqToSet(Inputs)
        \cup (IF implicit_dependencies.none THEN {}
              ELSE SeqToSet(implicit_dependencies.nodes))

\* C33: after any sequence of updates the Application's forward dependency
\* set is the builder plus the inputs plus the current implicit
\* dependencies, and no update fails while it replaces the implicit edges,
\* also when an implicit dependency is an input or is listed twice.
C33_DependenciesAreBuilderInputsImplicit ==
    /\ dependencies = ExpectedDependencies
    /\ last.op = "update" => last.err # "RuntimeError"

-----------------------------------------------------------------------------
(* bs/nodes.py: a GeneratedFile as the input of another Application.  The   *)
(* Application "producer" (builder "builder", input SourceFile "a") has one *)
(* output, a GeneratedFile, which is the one input of the Application       *)
(* "consumer".  The builders return no implicit dependencies.  apps maps    *)
(* each Application to its implicit_dependencies.                           *)

ChainApps == {"producer", "consumer"}

\* Application.get_hash of the producer with the implicit dependencies given
ProducerHashOf(implicit) ==
    HashHelper("Application",
               << <<"builderhash">>, <<FileHash("a")>>,
                  IF ~implicit.none THEN <<>> ELSE <<"None">> >>)

\* GeneratedFile.get_hash: the class name, the hash of the Application that
\* makes the file, the index and the name of the output
GeneratedFileHash(chain) ==
    HashHelper("GeneratedFile",
               <<ProducerHashOf(chain.producer), <<"0", "out">> >>)

\* Application._get_hash of the consumer
ConsumerHashOf(chain, implicit) ==
    HashHelper("Application",
               << <<"consumerhash">>, GeneratedFileHash(chain),
                  IF ~implicit.none THEN <<>> ELSE <<"None">> >>)

\* Application._get_hash of an Application of the chain
ChainHashOf(chain, app, implicit) ==
    IF app = "producer" THEN ProducerHashOf(implicit)
    ELSE ConsumerHashOf(chain, implicit)

\* GeneratedFile.accessed -> Application.accessed of the producer: asserts
\* that its implicit dependencies are known, then cache.accessed(get_hash())
GeneratedFileAccessed(chain, c) ==
    IF chain.producer.none THEN [c EXCEPT !.err = "AssertionError"]
    ELSE Accessed(c, ProducerHashOf(chain.producer))

\* the accessed() calls that end the miss path: on the inputs (the source
\* file of the producer: File.accessed returns; the GeneratedFile of the
\* consumer), then on the implicit dependencies (none)
InputsAccessed(chain, app, c) ==
    IF app = "producer" THEN c ELSE GeneratedFileAccessed(chain, c)

\* Application.update(context) of an Application of the chain; output_paths
\* is what the builder writes when it is invoked.  step is "hit", "put"
\* (cache.put raised) or "accessed" (put returned, the accessed() calls ran)
ChainUpdate(app) ==
    \E output_paths \in OutputLists :
        LET partial_hash == ChainHashOf(apps, app, NoneDeps)
            candidates == GetCandidateImplicitDependencies(TheCache, partial_hash)
            found == FirstMatch(candidates)
            chain == [apps EXCEPT ![app] = ListDeps(<<>>)]
            final_hash == ChainHashOf(chain, app, ListDeps(<<>>))
            put == Put(TheCache, final_hash, partial_hash, output_paths, <<>>)
            c == IF put.err # "none" THEN put
                 ELSE [InputsAccessed(chain, app, put) EXCEPT
                          !.evicted = put.evicted]
        IN  /\ apps' = chain
            /\ IF found # 0
               THEN /\ last' = [op |-> app, built |-> 0, found |-> found,
                                err |-> "none", evicted |-> 0, after |-> "hit"]
                    /\ UNCHANGED <<data, partial_hashes, size_used, size_limit,
                                   disk, dirs, meta, inserted>>
               ELSE /\ StoreCache(c)
                    /\ inserted' = InsertedAfter(put, final_hash, TRUE)
                    /\ last' = [op |-> app, built |-> 1, found |-> 0,
                                err |-> c.err, evicted |-> c.evicted,
                                after |-> IF put.err # "none" THEN "put"
                                          ELSE "accessed"]

\* the traversal updates the producer first
ProducerUpdate == ChainUpdate("producer")

\* the entry of the producer's outputs is in the cache
ProducerStored ==
    /\ ~apps.producer.none
    /\ ProducerHashOf(apps.producer) \in Keys(data)

\* the traversal updates the consumer after the producer: the file the
\* consumer reads is in the cache when its update begins
ConsumerUpdate == ProducerStored /\ ChainUpdate("consumer")

InitChain ==
    /\ InitApplication
    /\ apps = [app \in ChainApps |-> NoneDeps]
    /\ file_index = <<>>
    /\ NoCache
    /\ NoTraversal
    /\ InitGraph
    /\ NoThreads /\ NoChannel /\ NoHashing /\ NoService

notChain ==
    <<travVars, graphVars, threadVars, channelVars, hashVars, serviceVars,
      file_index>>

NextChain ==
    \/ ProducerUpdate /\ UNCHANGED <<appVars, notChain>>
    \/ ConsumerUpdate /\ UNCHANGED <<appVars, notChain>>
    \/ FileChanges /\ UNCHANGED <<apps, notChain>>
    \/ OtherPut /\ UNCHANGED <<apps, notChain>>

SpecChain == InitChain /\ [][NextChain]_vars

\* C38: in the miss path of Application.update the accessed() calls made on
\* the inputs after cache.put never fail: the entry of the Application that
\* produced a GeneratedFile input is still in the cache after the put that
\* stored this Application's own outputs.
C38_AccessedAfterPutNeverFails ==
    (last.op = "consumer" /\ last.built = 1 /\ last.after = "accessed") =>
        /\ last.err = "none"
        /\ ProducerStored

-----------------------------------------------------------------------------
(* bs/nodes.py and bs/traversal.py: two Applications with the same builder  *)
(* and the same input "a", updated by the worker threads of the executor    *)
(* (wrapper, traversal.py:35-37).  Neither Application.update nor the Cache *)
(* takes a lock, so the steps of the two updates interleave.  apps maps     *)
(* each Application to where its update is (pc) and to its                  *)
(* implicit_dependencies.                                                   *)

Twins == {"t1", "t2"}

\* the lists of paths the builder of the twins may return
TwinResults == {<<"a">>, <<"b">>}

\* the asserts that open Cache.put
PutPreconditions(c, final_hash, partial_hash) ==
    /\ final_hash \notin Keys(c.data)
    /\ ~(partial_hash \in DOMAIN c.ph
         /\ final_hash \in SeqToSet(c.ph[partial_hash]))

\* Application.update up to the call of builder.build:
\* _find_cached_implicit_dependencies adopts the first candidate that
\* matches and update returns, or clears the implicit dependencies
TwinFind(t) ==
    /\ apps[t].pc = "idle"
    /\ LET candidates ==
               GetCandidateImplicitDependencies(TheCache, GetHashOf(NoneDeps))
           found == FirstMatch(candidates)
       IN  /\ apps' = [apps EXCEPT ![t] =
                         IF found # 0
                         THEN [pc |-> "idle",
                               implicit |-> ListDeps(CandidateNodes(
                                                candidates[found]))]
                         ELSE [pc |-> "build", implicit |-> NoneDeps]]
           /\ last' = [op |-> t, built |-> 0, found |-> found, err |-> "none",
                       evicted |-> 0, after |-> "find"]
    /\ UNCHANGED <<data, partial_hashes, size_used, size_limit, disk, dirs,
                   meta, inserted, appVars>>

\* builder.build returns computed_deps; the nodes of the paths become the
\* implicit dependencies
TwinBuild(t) ==
    /\ apps[t].pc = "build"
    /\ \E computed_deps \in TwinResults :
          apps' = [apps EXCEPT ![t] =
                     [pc |-> "put",
                      implicit |-> ListDeps([i \in 1..Len(computed_deps) |->
                                                FileByPath(computed_deps[i])])]]
    /\ last' = [op |-> t, built |-> 1, found |-> 0, err |-> "none",
                evicted |-> 0, after |-> "build"]
    /\ UNCHANGED <<data, partial_hashes, size_used, size_limit, disk, dirs,
                   meta, inserted, appVars>>

\* context.cache.put(self.get_hash(), self._get_hash(None), output_paths,
\* [(path, hash) ...]), and the accessed() calls on source files
TwinPut(t) ==
    /\ apps[t].pc = "put"
    /\ \E output_paths \in OutputLists :
          LET c == Put(TheCache, GetHashOf(apps[t].implicit),
                       GetHashOf(NoneDeps), output_paths,
                       DepPairs(apps[t].implicit.nodes))
          IN  /\ StoreCache(c)
              /\ inserted' = InsertedAfter(c, GetHashOf(apps[t].implicit), TRUE)
              /\ last' = [op |-> t, built |-> 1, found |-> 0, err |-> c.err,
                          evicted |-> c.evicted, after |-> "put"]
    /\ apps' = [apps EXCEPT ![t].pc = "idle"]
    /\ UNCHANGED appVars

InitTwins ==
    /\ InitApplication
    /\ apps = [t \in Twins |-> [pc |-> "idle", implicit |-> NoneDeps]]
    /\ file_index = <<>>
    /\ NoCache
    /\ NoTraversal
    /\ InitGraph
    /\ NoThreads /\ NoChannel /\ NoHashing /\ NoService

NextTwins ==
    \/ \E t \in Twins : TwinFind(t) /\ UNCHANGED notChain
    \/ \E t \in Twins : TwinBuild(t) /\ UNCHANGED notChain
    \/ \E t \in Twins : TwinPut(t) /\ UNCHANGED notChain
    \/ FileChanges /\ UNCHANGED <<apps, notChain>>

SpecTwins == InitTwins /\ [][NextTwins]_vars

\* C39: whenever an update reaches cache.put, the full fingerprint is absent
\* from the primary map and from the bucket of the partial hash, for every
\* sequence of updates with changing file contents and for concurrent
\* updates of two Applications with the same builder and inputs.
C39_PutPreconditionsHold ==
    [][\A t \in Twins :
          (apps[t].pc = "put" /\ apps'[t].pc = "idle") =>
              PutPreconditions(TheCache, GetHashOf(apps[t].implicit),
                               GetHashOf(NoneDeps))]_vars

-----------------------------------------------------------------------------
(* bs/context.py: Context.file_by_path called by the worker threads of the  *)
(* executor (Application.update looks up its implicit dependencies by       *)
(* path).  file_by_path takes no lock.  A SourceFile instance is a number;  *)
(* the threads keep the instances they were handed, so no instance leaves   *)
(* the WeakValueDictionary by garbage collection.                           *)

Workers == {"w1", "w2"}

\* Context.__init__: files is empty (0: the path is not in files); no
\* worker is in file_by_path
NewIndex ==
    [files |-> [path \in Paths |-> 0],
     created |-> 0,
     workers |-> [w \in Workers |-> [pc |-> "idle", path |-> "a", node |-> 0]],
     handed |-> {}]

\* if path not in self.files
FileByPathCheck(w) ==
    /\ file_index.workers[w].pc = "idle"
    /\ \E path \in Paths :
          file_index' = [file_index EXCEPT
              !.workers[w] = [pc |-> IF file_index.files[path] = 0
                                     THEN "create" ELSE "return",
                              path |-> path, node |-> 0]]

\* node = nodes.SourceFile(path); node.targets = weakref.WeakSet()
FileByPathCreate(w) ==
    /\ file_index.workers[w].pc = "create"
    /\ file_index' = [file_index EXCEPT
          !.created = @ + 1,
          !.workers[w].node = file_index.created + 1,
          !.workers[w].pc = "insert"]

\* self.files[path] = node
FileByPathInsert(w) ==
    /\ file_index.workers[w].pc = "insert"
    /\ file_index' = [file_index EXCEPT
          !.files[file_index.workers[w].path] = file_index.workers[w].node,
          !.workers[w].pc = "return"]

\* return self.files[path]
FileByPathReturn(w) ==
    /\ file_index.workers[w].pc = "return"
    /\ file_index' = [file_index EXCEPT
          !.handed = @ \cup {<<file_index.workers[w].path,
                               file_index.files[file_index.workers[w].path]>>},
          !.workers[w].pc = "idle"]

InitIndex ==
    /\ file_index = NewIndex
    /\ apps = <<>>
    /\ NoCache
    /\ NoApplication
    /\ NoTraversal
    /\ InitGraph
    /\ NoThreads /\ NoChannel /\ NoHashing /\ NoService

notIndex ==
    <<cacheVars, appVars, travVars, graphVars, threadVars, channelVars,
      hashVars, serviceVars, apps>>

NextIndex ==
    \/ \E w \in Workers : FileByPathCheck(w) /\ UNCHANGED notIndex
    \/ \E w \in Workers : FileByPathCreate(w) /\ UNCHANGED notIndex
    \/ \E w \in Workers : FileByPathInsert(w) /\ UNCHANGED notIndex
    \/ \E w \in Workers : FileByPathReturn(w) /\ UNCHANGED notIndex

SpecIndex == InitIndex /\ [][NextIndex]_vars

\* C36: under any interleaving of worker threads that look up or create
\* source files by path, the file index never hands out two different
\* SourceFile instances for the same path.
C36_OneSourceFilePerPath ==
    \A x \in file_index.handed : \A y \in file_index.handed :
        x[1] = y[1] => x[2] = y[2]

-----------------------------------------------------------------------------
(* Claims about the two phases of traversal.update, checked under           *)
(* SpecTraversal                                                            *)

\* the node belongs to a selected target
InSelectedCone(n) == graph.targets[n] \cap graph.selected # {}

\* the nodes that are transitively dirty and inside a selected target's cone
Scheduled == {n \in ReachableFromDirty : InSelectedCone(n)}

\* the predecessors of N that run before it: the scheduled nodes N depends
\* on directly, and the virtual head once for each time N is listed as dirty
Blockers(N) ==
    Cardinality({P \in Scheduled : N \in graph.rev[P]})
        + Cardinality({i \in 1..Len(graph.dirty) : graph.dirty[i] = N})

\* phase 1 has ended and phase 2 has not called maybe_submit yet
AfterPhase1 == main.pc = "seed" /\ main.i = 1

\* the nodes a step appended to to_check
Enqueued == SubSeq(to_check', Len(to_check), Len(to_check'))

\* C34: after phase 1 need_update[N] is the number of direct predecessors of
\* N that run before it (the transitively dirty predecessors inside a
\* selected target's cone, the head included for a node of dirty), nodes of
\* no selected target have no count, and a node is put on the BFS queue
\* exactly once, when it gets its count.
C34_BlockerCountsAfterPhase1 ==
    /\ [](AfterPhase1 =>
             /\ DOMAIN need_update = Scheduled
             /\ \A N \in Scheduled : need_update[N] = Blockers(N))
    /\ [][main.pc = "phase1" /\ to_check # <<>> =>
             /\ SeqToSet(Enqueued) = DOMAIN need_update' \ DOMAIN need_update
             /\ Len(Enqueued) = Cardinality(SeqToSet(Enqueued))]_vars

\* phase 1 ended with a node that has two blockers, and with a transitively
\* dirty node that belongs to no selected target
C34_Witness ==
    /\ AfterPhase1
    /\ \E N \in Scheduled : need_update[N] = 2 /\ Blockers(N) = 2
    /\ \E n \in ReachableFromDirty : ~InSelectedCone(n)

\* the nodes whose count maybe_submit brought to 0 (lines 44-48): they were
\* handed to the executor
BroughtToZero == SeqToSet(pool.queue) \cup pool.running \cup pool.completed

\* C35: during phase 2 a node's update is entered if and only if its count
\* need_update[N] was decremented to 0: never while the count is positive,
\* never for a node whose count maybe_submit did not bring to 0, and every
\* node whose count reached 0 has its update entered before the traversal
\* ends.
C35_UpdateEnteredIffCountReachedZero ==
    /\ \A n \in hist.started : n \notin DOMAIN need_update
    /\ \A n \in hist.started : n \in BroughtToZero
    /\ TraversalEnded => BroughtToZero \subseteq hist.started

-----------------------------------------------------------------------------
(* Claims about the registration of a target (backend.py: _TargetData),     *)
(* checked under SpecGraph                                                  *)

\* the registration of the target graph_last.u has just returned
JustRegistered == graph_last.op = "register" /\ graph_last.err = "none"

\* C37: after a target is registered, every node reachable from it through
\* forward edges is marked dirty and the target's waiting_nodes are exactly
\* the reachable nodes that have no dependencies (the walk descends into a
\* node's dependencies only the first time it sees the target on the node).
C37_RegisteredTargetDirtyAndReady ==
    JustRegistered =>
        LET reachable == ForwardReach({graph_last.u})
        IN  /\ \A n \in reachable : node_fields[n].dirty = "True"
            /\ waiting_nodes[graph_last.u]
                   = {n \in reachable : node_fields[n].dependencies = {}}

-----------------------------------------------------------------------------
\* ------------------------------------------------------------------
\* bs/service.py: forced restart (tests/service_test.py:
\* force_reload_test).  Two proxies of class S on one control file, both
\* made with force_restart True; the second is entered when the first has
\* been entered.  The sleep of 0.5 s between _stop and the start of the new
\* process orders nothing: the old process leaves serve_forever, exits its
\* instance (a service may take its time in __exit__) and unlinks the
\* control file whenever it gets there.
\* ------------------------------------------------------------------

\* the proxy entered first and the proxy entered second
FirstProxy == "a"
SecondProxy == "b"

\* ServiceProxy.__enter__ with force_restart, lines 88-90: _try_connect(0.5);
\* a service that answers is to be stopped, otherwise one is started
EnterForced(svc, p) ==
    LET tried == TryConnect(svc, p)
    IN IF tried.proxies[p].pc = "connected"
       THEN [tried EXCEPT !.proxies[p].pc = "stop"]
       ELSE tried

\* lines 94-96: self._call("_stop"), self._close(), time.sleep(0.5); an
\* exception of the call leaves __enter__ (lines 114-116)
ForceStop(svc, p) ==
    LET called == Call(svc, p, [name |-> "_stop", arg |-> 0])
        closed == Close(called, p)
    IN [closed EXCEPT !.proxies[p].pc =
                          IF called.proxies[p].result.raised # "none"
                          THEN "failed" ELSE "start"]

ProxyEnterForced(p) ==
    /\ service.proxies[p].pc = "new"
    /\ p = SecondProxy =>
           service.proxies[FirstProxy].pc \in {"connected", "closed"}
    /\ service' = EnterForced(service, p)

ProxyForceStop(p) ==
    /\ service.proxies[p].pc = "stop"
    /\ service' = ForceStop(service, p)

\* the calls of force_reload_test
RestartCalls ==
    {[name |-> "set_value", arg |-> v] : v \in Values}
    \cup {[name |-> "get_value", arg |-> 0]}

ProxyRestartCall(p) ==
    /\ service.proxies[p].pc = "connected"
    /\ \E call \in RestartCalls : service' = Call(service, p, call)

NextRestart ==
    \/ \E p \in Proxies : ProxyEnterForced(p) /\ UNCHANGED noService
    \/ \E p \in Proxies : ProxyForceStop(p) /\ UNCHANGED noService
    \/ \E p \in Proxies : ProxyRun(p) /\ UNCHANGED noService
    \/ \E p \in Proxies : ProxyConnectStarted(p) /\ UNCHANGED noService
    \/ \E p \in Proxies : ProxyRestartCall(p) /\ UNCHANGED noService
    \/ \E p \in Proxies : ProxyClose(p) /\ UNCHANGED noService
    \/ \E i \in 1..MaxInstances :
           ServeForeverReturns(i) /\ UNCHANGED noService

SpecRestart == InitService /\ [][NextRestart]_vars

\* the second proxy has been entered
SecondEntered == service.proxies[SecondProxy].pc = "connected"

\* C31: entering a proxy with force_restart on a control file whose service
\* is running stops that service and connects the proxy to a newly started
\* instance in its initial state; from then on the calls through the proxy
\* of the previous instance fail and the calls through the new proxy
\* succeed.
C31_ForcedRestartReplacesInstance ==
    [][/\ ProxyForceStop(SecondProxy) =>
              /\ service'.proxies[SecondProxy].pc = "start"
              /\ StateOf(service', service.proxies[SecondProxy].instance)
                     \in {"stopping", "exited"}
       /\ ProxyConnectStarted(SecondProxy) =>
              /\ SecondEntered'
              /\ service'.proxies[SecondProxy].instance
                     # service.proxies[FirstProxy].instance
              /\ service'.instances[service'.proxies[SecondProxy].instance]
                     .value = 0
       /\ (SecondEntered /\ ProxyRestartCall(FirstProxy)) =>
              service'.proxies[FirstProxy].result.raised # "none"
       /\ (SecondEntered /\ ProxyRestartCall(SecondProxy)) =>
              service'.proxies[SecondProxy].result.raised = "none"]_vars

\* C40: while a service instance is serving, the control file exists and
\* names the port of that instance; the control file written by one
\* instance is never removed by another instance, also not by a previous
\* instance that is still shutting down while a forced restart starts its
\* successor.
C40_ControlFileOfServingInstance ==
    /\ [](\A i \in 1..Len(service.instances) :
              service.instances[i].state = "serving" => service.file = i)
    /\ [][\A i \in 1..MaxInstances :
              (ServeForeverReturns(i) /\ service.file # 0)
                  => service.file = i]_vars

====
